---------------------------- MODULE Spec2Model ----------------------------
(***************************************************************************)
(* Healthcare Cost Navigator (src/main.py): the SQL safety validator, the  *)
(* distance-aware provider query builder and the POST /ask pipeline.       *)
(* ZIP centroid resolver (src/geo.py): the one-time load of the reference   *)
(* file and the single and batch lookups, also with several callers       *)
(* inside the load at once.  Bulk loader (src/etl.py): the centroid step,  *)
(* the DRG code of a row and the chunked upserts.  Request session         *)
(* (src/db.py): get_session.                                               *)
(*                                                                         *)
(* Texts are TLA+ strings, handled character by character with Len,        *)
(* SubSeq and \o, so that substring tests and regular expressions are      *)
(* computed on the text as the Python code computes them.                  *)
(*                                                                         *)
(* Optional values (Python None) are sets: {} is None, {v} is the value v. *)
(***************************************************************************)
EXTENDS Integers, Sequences, FiniteSets, TLC

VARIABLES
    q,          \* SpecSql, SpecNl: the description of the text handed to
                \* _sql_is_safe, of the content handed to generate_nl2sql
    verdict,    \* SpecSql, SpecNl: what the function returned, {} before
    pc,         \* Spec: position of the request handler
    req,        \* Spec: the request in flight
    llm,        \* Spec: what generate_nl2sql returned (or that it raised)
    executed,   \* Spec: the calls of session.execute, in order: [sql, params]
    checked,    \* Spec: the texts handed to _sql_is_safe, with its verdict
    resp,       \* Spec: the response, {} while the request is in flight
    centroids,  \* Spec: the ZIPs that have a row in zip_centroids
    completions, \* Spec: the completion requests the request in flight has sent
    file,       \* SpecGeo: the reference file at the resolved path
    _LOCAL_ZIP_DB,          \* SpecGeo: geo._LOCAL_ZIP_DB, ZIP -> <<lat, lon>>
    _LOCAL_ZIP_DB_LOADED,   \* SpecGeo: geo._LOCAL_ZIP_DB_LOADED
    geo,        \* SpecGeo: the last call of the resolver and what it gave
    thr,        \* SpecLoad: the callers inside load_local_zip_db, each with
                \* its position
    etl,        \* SpecEtl: the bulk loader (src/etl.py main): its position,
                \* its buffers and what it has written
    sess        \* SpecDb: the sessions get_session has yielded, each with
                \* the calls made on it

\* the state of src/geo.py
geoVars == <<file, _LOCAL_ZIP_DB, _LOCAL_ZIP_DB_LOADED, geo>>

\* the state of the concurrent callers, of the bulk loader and of the sessions
moreVars == <<thr, etl, sess>>

vars == <<q, verdict, pc, req, llm, executed, checked, resp, centroids,
          completions, file, _LOCAL_ZIP_DB, _LOCAL_ZIP_DB_LOADED, geo,
          thr, etl, sess>>

-----------------------------------------------------------------------------
(* Optional values *)

None == {}
Some(v) == {v}
The(o) == CHOOSE v \in o : TRUE

\* src/geo.py as imported and not yet used: no file at the path (None), the
\* map empty, nothing loaded, no call made
GeoIdle ==
    /\ file = None
    /\ _LOCAL_ZIP_DB = <<>>
    /\ _LOCAL_ZIP_DB_LOADED = FALSE
    /\ geo = None

\* no caller inside load_local_zip_db, the bulk loader not started, no
\* session yielded
MoreIdle ==
    /\ thr = <<>>
    /\ etl = None
    /\ sess = <<>>

\* a value computed once and used under a name, as a Python assignment
\* does: With(v, LAMBDA x : e) is e with x standing for v
With(v, F(_)) == F(v)

-----------------------------------------------------------------------------
(* Characters and strings (Python str methods and the re module) *)

Char(s, i) == SubSeq(s, i, i)

Whitespace == {" ", "\t", "\n"}

UpperChars == <<"A","B","C","D","E","F","G","H","I","J","K","L","M",
                "N","O","P","Q","R","S","T","U","V","W","X","Y","Z">>
LowerChars == <<"a","b","c","d","e","f","g","h","i","j","k","l","m",
                "n","o","p","q","r","s","t","u","v","w","x","y","z">>
Digits == {"0","1","2","3","4","5","6","7","8","9"}

Range(f) == {f[i] : i \in DOMAIN f}

ToLower == [c \in Range(UpperChars) |->
              LowerChars[CHOOSE i \in DOMAIN UpperChars : UpperChars[i] = c]]
ToUpper == [c \in Range(LowerChars) |->
              UpperChars[CHOOSE i \in DOMAIN LowerChars : LowerChars[i] = c]]

LowerChar(c) == IF c \in DOMAIN ToLower THEN ToLower[c] ELSE c

UpperChar(c) == IF c \in DOMAIN ToUpper THEN ToUpper[c] ELSE c

\* the characters lo..hi of s, each mapped to lower or to upper case (the
\* range is halved at each step to keep the evaluation shallow)
RECURSIVE MapRange(_, _, _, _)
MapRange(s, lo, hi, up) ==
    IF lo > hi THEN ""
    ELSE IF lo = hi
      THEN (IF up THEN UpperChar(Char(s, lo)) ELSE LowerChar(Char(s, lo)))
    ELSE LET mid == (lo + hi) \div 2
         IN  MapRange(s, lo, mid, up) \o MapRange(s, mid + 1, hi, up)

\* str.lower()
Lower(s) == MapRange(s, 1, Len(s), FALSE)
\* str.upper()
Upper(s) == MapRange(s, 1, Len(s), TRUE)

Min(S) == CHOOSE x \in S : \A y \in S : x <= y
Max(S) == CHOOSE x \in S : \A y \in S : x >= y

\* str.strip(chars): drop the leading and the trailing run of chars
StripChars(s, chars) ==
    LET keep == {i \in 1..Len(s) : Char(s, i) \notin chars}
    IN  IF keep = {} THEN ""
        ELSE SubSeq(s, Min(keep), Max(keep))

\* str.strip()
Strip(s) == StripChars(s, Whitespace)

\* s[i:].startswith(lit), i counted from 1
StartsWithAt(s, i, lit) ==
    /\ i >= 1
    /\ i + Len(lit) - 1 <= Len(s)
    /\ SubSeq(s, i, i + Len(lit) - 1) = lit

\* s.startswith(lit)
StartsWith(s, lit) == StartsWithAt(s, 1, lit)

\* lit in s
Contains(s, lit) == \E i \in 1..(Len(s) - Len(lit) + 1) : StartsWithAt(s, i, lit)

\* s.endswith(lit)
EndsWith(s, lit) == StartsWithAt(s, Len(s) - Len(lit) + 1, lit)

\* s.count(lit), overlapping places counted
Occurrences(s, lit) == Cardinality({i \in 1..Len(s) : StartsWithAt(s, i, lit)})

\* s.find(lit), counted from 1 (0 when lit is not in s)
IndexOf(s, lit) ==
    LET at == {i \in 1..Len(s) : StartsWithAt(s, i, lit)}
    IN  IF at = {} THEN 0 ELSE Min(at)

\* s.rfind(lit), counted from 1 (0 when lit is not in s)
LastIndexOf(s, lit) ==
    LET at == {i \in 1..Len(s) : StartsWithAt(s, i, lit)}
    IN  IF at = {} THEN 0 ELSE Max(at)

\* \w
WordChars == Range(LowerChars) \cup Range(UpperChars) \cup Digits \cup {"_"}

IsWordChar(c) == c \in WordChars

IsWordAt(s, i) == i >= 1 /\ i <= Len(s) /\ IsWordChar(Char(s, i))

\* \b between the characters i-1 and i
WordBoundary(s, i) == IsWordAt(s, i - 1) # IsWordAt(s, i)

\* the first index >= i whose character is not in chars (Len(s)+1 when none)
SkipWhile(s, i, chars) ==
    LET stop == {j \in i..Len(s) : Char(s, j) \notin chars}
    IN  IF stop = {} THEN Max({i, Len(s) + 1}) ELSE Min(stop)

\* \s+ at i: the index after the run, or 0 when there is no whitespace at i
SpacesEnd(s, i) ==
    LET j == SkipWhile(s, i, Whitespace) IN IF j > i THEN j ELSE 0

NameStart == Range(LowerChars) \cup {"_"}
NameRest == Range(LowerChars) \cup Digits \cup {"_", "."}

\* \b<kw>\s+([a-z_][a-z0-9_\.]+) at i: <<end, name>>, or <<0, "">> when no match
TableAfter(s, i, kw) ==
    IF ~(WordBoundary(s, i) /\ StartsWithAt(s, i, kw)) THEN <<0, "">>
    ELSE LET a == SpacesEnd(s, i + Len(kw)) IN
         IF a = 0 \/ a > Len(s) \/ Char(s, a) \notin NameStart THEN <<0, "">>
         ELSE LET e == SkipWhile(s, a + 1, NameRest) IN
              IF e = a + 1 THEN <<0, "">> ELSE <<e, SubSeq(s, a, e - 1)>>

\* re.findall(r"\bfrom\s+([a-z_][a-z0-9_\.]+)|\bjoin\s+([a-z_][a-z0-9_\.]+)", s):
\* the names captured by the non-overlapping matches, scanning from i
TableAt(s, i) ==
    LET f == TableAfter(s, i, "from") IN
    IF f[1] # 0 THEN f ELSE TableAfter(s, i, "join")

RECURSIVE FindTables(_, _)
FindTables(s, i) ==
    LET starts == {j \in i..Len(s) : TableAt(s, j)[1] # 0}
    IN  IF starts = {} THEN {}
        ELSE LET m == TableAt(s, Min(starts))
             IN  {m[2]} \cup FindTables(s, m[1])

\* (BindsAt with a fault seeded: no \b after the alias)
BindsAt_NoBoundary(s, i, kws, table, alias) ==
    /\ WordBoundary(s, i)
    /\ \E kw \in kws :
         /\ StartsWithAt(s, i, kw)
         /\ LET a == SpacesEnd(s, i + Len(kw)) IN
            /\ a # 0
            /\ StartsWithAt(s, a, table)
            /\ LET b == SpacesEnd(s, a + Len(table)) IN
               /\ b # 0
               /\ StartsWithAt(s, b, alias)

\* re.search(r"\b(<kw1>|<kw2>)\s+<table>\s+<alias>\b", s) for kw in kws
BindsAt(s, i, kws, table, alias) ==
    /\ WordBoundary(s, i)
    /\ \E kw \in kws :
         /\ StartsWithAt(s, i, kw)
         /\ LET a == SpacesEnd(s, i + Len(kw)) IN
            /\ a # 0
            /\ StartsWithAt(s, a, table)
            /\ LET b == SpacesEnd(s, a + Len(table)) IN
               /\ b # 0
               /\ StartsWithAt(s, b, alias)
               /\ WordBoundary(s, b + Len(alias))

SearchBinding(s, kws, table, alias) ==
    \E i \in 1..Len(s) : BindsAt(s, i, kws, table, alias)

\* t.split(".")[-1]
LastDotPart(t) ==
    LET dots == {i \in 1..Len(t) : Char(t, i) = "."}
    IN  IF dots = {} THEN t
        ELSE SubSeq(t, Max(dots) + 1, Len(t))

-----------------------------------------------------------------------------
(* The SQL safety validator: _sql_is_safe, src/main.py *)

ALLOWED_TABLES == {"providers", "drg_prices", "ratings", "zip_centroids"}

FORBIDDEN_KEYWORDS ==
    {"insert", "update", "delete", "drop", "alter", "create", "grant", "revoke",
     "truncate", "acos(", "radians(", "sin(", "cos("}

\* (Normalise with a fault seeded: the text is not lowercased)
Normalise_NoLower(sql) == StripChars(Strip(sql), {";"})

\* s = sql.strip().strip(";").lower()
Normalise(sql) == Lower(StripChars(Strip(sql), {";"}))

\* any(kw in s for kw in FORBIDDEN_KEYWORDS)
HasForbidden(s) == \E kw \in FORBIDDEN_KEYWORDS : Contains(s, kw)

\* "dp." in s and not re.search(r"\b(from|join)\s+drg_prices\s+dp\b", s)
MissingDp(s) ==
    Contains(s, "dp.") /\ ~SearchBinding(s, {"from", "join"}, "drg_prices", "dp")

\* "p." in s and not re.search(r"\b(from|join)\s+providers\s+p\b", s)
MissingP(s) ==
    Contains(s, "p.") /\ ~SearchBinding(s, {"from", "join"}, "providers", "p")

\* "r." in s and not re.search(r"\bjoin\s+ratings\s+r\b", s)
MissingR(s) ==
    Contains(s, "r.") /\ ~SearchBinding(s, {"join"}, "ratings", "r")

\* the names after from/join whose last dotted part is not allow-listed
DisallowedTables(s) ==
    {LastDotPart(t) : t \in FindTables(s, 1)} \ ALLOWED_TABLES

Rejected(reason) == [ok |-> FALSE, reason |-> reason]
Accepted == [ok |-> TRUE, reason |-> ""]

\* The results the call can return.  There is one, except when several names
\* are not allow-listed: the loop runs over a Python set, whose order is not
\* fixed, and the reason names the first one met.
_sql_is_safe(sql) ==
    LET s == Normalise(sql) IN
    IF ~StartsWith(s, "select")
      THEN {Rejected("Only SELECT statements are allowed")}
    ELSE IF HasForbidden(s)
      THEN {Rejected("Statement contains forbidden keywords")}
    ELSE IF MissingDp(s)
      THEN {Rejected("Missing FROM/JOIN for alias 'dp' (drg_prices dp)")}
    ELSE IF MissingP(s)
      THEN {Rejected("Missing FROM/JOIN for alias 'p' (providers p)")}
    ELSE IF MissingR(s)
      THEN {Rejected("Missing JOIN for alias 'r' (ratings r)")}
    ELSE IF DisallowedTables(s) # {}
      THEN {Rejected("Table '" \o t \o "' is not allowed") : t \in DisallowedTables(s)}
    ELSE {Accepted}

-----------------------------------------------------------------------------
(* The texts handed to _sql_is_safe.  A text is described by its parts, so   *)
(* that what it names and binds is known from its construction and not from  *)
(* the validator's own reading of it; Render gives the text itself.          *)

\* at most this many tables in the FROM clause of a described text
MaxTables == 2

Aliases == {"dp", "p", "r"}
AliasTable == [dp |-> "drg_prices", p |-> "providers", r |-> "ratings"]
AliasColumn == [dp |-> "dp.ms_drg_code", p |-> "p.zip", r |-> "r.rating"]

\* one table of the FROM clause: introduced by FROM (the first), JOIN or a comma
Ref(kw, table, alias) == [kw |-> kw, table |-> table, alias |-> alias]

\* the first table: each alias on its table, on another table, left out or
\* lengthened; a table without alias; names outside the allow-list
FirstRefs ==
    {Ref("from", "drg_prices", "dp"), Ref("from", "providers", "p"),
     Ref("from", "ratings", "r"), Ref("from", "zip_centroids", ""),
     Ref("from", "drg_prices", ""), Ref("from", "providers", "dp"),
     Ref("from", "drg_prices", "dpx"), Ref("from", "users", ""),
     Ref("from", "t", "")}

\* the further tables, joined or listed after a comma
MoreRefs ==
    {Ref("join", "drg_prices", "dp"), Ref("join", "providers", "p"),
     Ref("join", "ratings", "r"), Ref("join", "zip_centroids", ""),
     Ref("join", "users", ""), Ref("join", "t", ""),
     Ref(",", "providers", "p"), Ref(",", "users", "")}

RefSeqs ==
    UNION {{<<f>> \o rest : f \in FirstRefs, rest \in [1..n -> MoreRefs]}
           : n \in 0..(MaxTables - 1)}

\* how the keywords and the table names are written
Styles == {[caps |-> FALSE, schema |-> ""], [caps |-> TRUE, schema |-> ""],
           [caps |-> FALSE, schema |-> "public."]}

Kw(k, caps) == IF caps THEN Upper(k) ELSE k

RenderRef(r, schema, caps) ==
    (CASE r.kw = "from" -> " " \o Kw("from", caps) \o " "
       [] r.kw = "join" -> "\n  " \o Kw("join", caps) \o "\t"
       [] OTHER -> ", ")
    \o schema \o r.table
    \o (IF r.alias = "" THEN "" ELSE " " \o r.alias)
    \o (IF r.kw = "join" THEN " " \o Kw("on", caps) \o " 1 = 1" ELSE "")

RECURSIVE RenderRefs(_, _, _)
RenderRefs(refs, schema, caps) ==
    IF refs = <<>> THEN ""
    ELSE RenderRef(Head(refs), schema, caps) \o RenderRefs(Tail(refs), schema, caps)

AliasOrder == <<"dp", "p", "r">>

\* the columns of the aliases used, in a fixed order
RECURSIVE ColumnsFrom(_, _)
ColumnsFrom(uses, i) ==
    IF i > Len(AliasOrder) THEN <<>>
    ELSE (IF AliasOrder[i] \in uses THEN <<AliasColumn[AliasOrder[i]]>> ELSE <<>>)
         \o ColumnsFrom(uses, i + 1)

RECURSIVE JoinWith(_, _)
JoinWith(items, sep) ==
    IF items = <<>> THEN ""
    ELSE IF Len(items) = 1 THEN items[1]
    ELSE items[1] \o sep \o JoinWith(Tail(items), sep)

\* a token as it is written: in one of three letter cases, a call closed
TokenText(tok, tokcase) ==
    LET t == CASE tokcase = "upper" -> Upper(tok)
               [] tokcase = "mixed" -> Upper(Char(tok, 1)) \o SubSeq(tok, 2, Len(tok))
               [] OTHER -> tok
    IN  t \o (IF Char(tok, Len(tok)) = "(" THEN "1)" ELSE "")

Render(d) ==
    LET tt   == TokenText(d.tok, d.tokcase)
        cols == ColumnsFrom(d.uses, 1)
                \o (IF d.tok # "" /\ d.tokpos = "select" THEN <<"x_" \o tt>> ELSE <<>>)
    IN  d.lead
        \o Kw(d.verb, d.caps) \o " "
        \o (IF cols = <<>> THEN "*" ELSE JoinWith(cols, ", "))
        \o RenderRefs(d.refs, d.schema, d.caps)
        \o (IF d.tok # "" /\ d.tokpos = "where"
            THEN " " \o Kw("where", d.caps) \o " 'a" \o tt \o "' <> ''" ELSE "")
        \o (IF d.tok # "" /\ d.tokpos = "tail" THEN "; " \o tt \o " x" ELSE "")
        \o d.tail

\* the texts whose FROM clause varies: every table, alias, schema, letter case
StructQueries ==
    {[lead |-> "", tail |-> "", verb |-> "select", caps |-> st.caps,
      uses |-> u, schema |-> st.schema, refs |-> rs,
      tok |-> "", tokcase |-> "lower", tokpos |-> "select"] :
        st \in Styles, u \in SUBSET Aliases, rs \in RefSeqs}

\* the FROM clauses the other texts are built on: none, one that binds the
\* three aliases, one that names a table outside the allow-list
BaseRefs ==
    {<<>>,
     <<Ref("from", "drg_prices", "dp"), Ref("join", "providers", "p"),
       Ref("join", "ratings", "r")>>,
     <<Ref("from", "users", "")>>}

BaseUses(refs) == {r.alias : r \in Range(refs)} \ {""}

\* the texts with a token somewhere: each forbidden one and two that are not
TokenQueries ==
    {[lead |-> "", tail |-> "", verb |-> "select", caps |-> c,
      uses |-> BaseUses(rs), schema |-> "", refs |-> rs,
      tok |-> t, tokcase |-> tc, tokpos |-> tp] :
        c \in BOOLEAN, rs \in BaseRefs,
        t \in FORBIDDEN_KEYWORDS \cup {"updat", "sinus"},
        tc \in {"lower", "upper", "mixed"}, tp \in {"select", "where", "tail"}}

Leads == {"", " \n", ";", "; "}
Tails == {"", " ;\n", " limit 100", "; select 1", ";select version();"}
Verbs == {"select", "with", "delete", "selection"}

\* the texts whose ends and first word vary
SeparatorQueries ==
    {[lead |-> l, tail |-> tl, verb |-> v, caps |-> c,
      uses |-> BaseUses(rs), schema |-> "", refs |-> rs,
      tok |-> "", tokcase |-> "lower", tokpos |-> "select"] :
        l \in Leads, tl \in Tails, v \in Verbs, c \in BOOLEAN, rs \in BaseRefs}

Queries == StructQueries \cup TokenQueries \cup SeparatorQueries

-----------------------------------------------------------------------------
(* SpecSql: _sql_is_safe applied once to each described text *)

Idle == [kind |-> "none"]

InitSql ==
    /\ q \in Queries
    /\ verdict = None
    /\ pc = "idle"
    /\ req = Idle
    /\ llm = None
    /\ executed = <<>>
    /\ checked = <<>>
    /\ resp = None
    /\ centroids = {}
    /\ completions = 0
    /\ GeoIdle
    /\ MoreIdle

Validate ==
    /\ verdict = None
    /\ \E v \in _sql_is_safe(Render(q)) : verdict' = Some(v)
    /\ UNCHANGED geoVars
    /\ UNCHANGED moreVars
    /\ UNCHANGED <<q, pc, req, llm, executed, checked, resp, centroids, completions>>

NextSql == Validate

SpecSql == InitSql /\ [][NextSql]_vars

-----------------------------------------------------------------------------
(* What a described text names, uses and binds, read off its description *)

Validated == verdict # None
Ok == The(verdict).ok
Reason == The(verdict).reason

\* the tables named after FROM, after JOIN, or after a comma of the FROM clause
NamedTables(d) == {r.table : r \in Range(d.refs)}

\* a forbidden token is written somewhere in the text
ForbiddenIn(d) == d.tok \in FORBIDDEN_KEYWORDS \/ d.verb \in FORBIDDEN_KEYWORDS

\* a second statement follows a separator
SecondStatement(d) ==
    \/ d.tail \in {"; select 1", ";select version();"}
    \/ d.tok # "" /\ d.tokpos = "tail"

\* alias a is bound to its own table somewhere in the FROM clause
Bound(d, a) == \E r \in Range(d.refs) : r.table = AliasTable[a] /\ r.alias = a

\* alias a is bound to its own table right after FROM or JOIN, unqualified
BoundByKeyword(d, a) ==
    \E r \in Range(d.refs) :
        r.table = AliasTable[a] /\ r.alias = a /\ r.kw \in {"from", "join"}

\* a minimal, correctly aliased, single SELECT over allow-listed tables
WellFormed(d) ==
    /\ d.verb = "select" /\ d.lead = "" /\ d.tail \in {"", " limit 100"}
    /\ d.tok = "" /\ d.schema = ""
    /\ d.refs # <<>>
    /\ NamedTables(d) \subseteq ALLOWED_TABLES
    /\ \A r \in Range(d.refs) : r.alias \in Aliases \cup {""}
    /\ \A a \in d.uses : BoundByKeyword(d, a)

\* C2: a text in which a separator is followed by a second statement is
\* rejected by _sql_is_safe.
C2_MultiStatementRejected ==
    (Validated /\ SecondStatement(q)) => ~Ok

\* C3: a text that names, after FROM or JOIN or further in the FROM clause, a
\* table outside the allow-list is rejected by _sql_is_safe.
C3_DisallowedTableRejected ==
    (Validated /\ ~(NamedTables(q) \subseteq ALLOWED_TABLES)) => ~Ok

\* C4: a text in which a forbidden token is written, in any letter case and
\* at any place, is rejected by _sql_is_safe, whatever else it contains.
C4_ForbiddenTokenRejected ==
    (Validated /\ ForbiddenIn(q)) => ~Ok

\* C4 witness: a forbidden token in mixed case inside a string literal of an
\* otherwise acceptable SELECT has been rejected for that token.
C4_Witness ==
    /\ Validated /\ q.tok \in FORBIDDEN_KEYWORDS
    /\ q.tokcase = "mixed" /\ q.tokpos = "where" /\ q.verb = "select"
    /\ Len(q.refs) = 3
    /\ Reason = "Statement contains forbidden keywords"

C6_WellFormedAccepted ==
    (Validated /\ WellFormed(q)) => Ok

-----------------------------------------------------------------------------
(* The provider query builder: _query_providers, src/main.py *)

\* Python truth value of an optional string
Truthy(o) == o # None /\ The(o) # ""

\* Python truth value of an optional number
TruthyNum(o) == o # None /\ The(o) # 0

\* (MissingFilters with a fault seeded: only None counts as absent, not "")
MissingFilters_NoneOnly(drg, zip) == drg = None /\ zip = None

\* if not drg and not zip_code: raise HTTPException(400)
MissingFilters(drg, zip) == ~Truthy(drg) /\ ~Truthy(zip)

\* zip_code and radius_km and radius_km > 0
RadiusSearch(zip, radius_km) ==
    Truthy(zip) /\ TruthyNum(radius_km) /\ The(radius_km) > 0

\* (DrgCondition with a fault seeded: the value is formatted into the text)
DrgCondition_Interpolated(drg) ==
    "(dp.ms_drg_code = '" \o drg \o "' OR dp.ms_drg_description ILIKE '%" \o drg \o "%')"

\* the condition appended for a drg filter: placeholders only
DrgCondition(drg) ==
    "(dp.ms_drg_code = :drg OR dp.ms_drg_description ILIKE :drg_like)"

\* (Conditions with a fault seeded: the exact-ZIP condition is kept in a
\* radius search)
Conditions_ZipAlways(drg, zip, radius_km) ==
    (IF Truthy(drg) THEN <<DrgCondition(The(drg))>> ELSE <<>>)
    \o (IF Truthy(zip) THEN <<"p.zip = :zip">> ELSE <<>>)

Conditions(drg, zip, radius_km) ==
    (IF Truthy(drg) THEN <<DrgCondition(The(drg))>> ELSE <<>>)
    \o (IF Truthy(zip) /\ ~(TruthyNum(radius_km) /\ The(radius_km) > 0)
        THEN <<"p.zip = :zip">> ELSE <<>>)

\* where_sql = " AND ".join(conditions) if conditions else "TRUE"
WhereSql(drg, zip, radius_km) ==
    LET conditions == Conditions(drg, zip, radius_km)
    IN  IF conditions # <<>> THEN JoinWith(conditions, " AND ") ELSE "TRUE"

\* (DistanceJoin with a fault seeded: the source centroid is not joined)
DistanceJoin_OneJoin ==
    "JOIN zip_centroids zc_dest ON zc_dest.zip = p.zip "

DistanceJoin ==
    "JOIN zip_centroids zc_src ON zc_src.zip = :src_zip "
    \o "JOIN zip_centroids zc_dest ON zc_dest.zip = p.zip "
DistanceSelect ==
    ", haversine_km(zc_src.lat, zc_src.lng, zc_dest.lat, zc_dest.lng) AS distance_km"
DistanceCondition ==
    " AND haversine_km(zc_src.lat, zc_src.lng, zc_dest.lat, zc_dest.lng) <= :radius_km"

\* (OrderAndLimit with a fault seeded: the row cap is left out)
OrderAndLimit_Unbounded ==
    "\n        ORDER BY dp.avg_covered_charges ASC NULLS LAST"

\* the last two lines of the main query
OrderAndLimit ==
    "\n        ORDER BY dp.avg_covered_charges ASC NULLS LAST"
    \o "\n        LIMIT 100"

\* (Params with a fault seeded: drg_like is not bound)
Params_NoLike(drg, zip, radius_km) ==
    (IF Truthy(drg) THEN ("drg" :> The(drg)) ELSE <<>>)
    @@ (IF Truthy(zip) /\ ~(TruthyNum(radius_km) /\ The(radius_km) > 0)
        THEN ("zip" :> The(zip)) ELSE <<>>)
    @@ (IF RadiusSearch(zip, radius_km)
        THEN ("src_zip" :> The(zip)) @@ ("radius_km" :> The(radius_km))
        ELSE <<>>)

\* the parameter map handed to session.execute with the main query
Params(drg, zip, radius_km) ==
    (IF Truthy(drg)
     THEN ("drg" :> The(drg)) @@ ("drg_like" :> ("%" \o The(drg) \o "%"))
     ELSE <<>>)
    @@ (IF Truthy(zip) /\ ~(TruthyNum(radius_km) /\ The(radius_km) > 0)
        THEN ("zip" :> The(zip)) ELSE <<>>)
    @@ (IF RadiusSearch(zip, radius_km)
        THEN ("src_zip" :> The(zip)) @@ ("radius_km" :> The(radius_km))
        ELSE <<>>)

\* the text of the main query (the f-string, with its line breaks and indent)
MainSql(drg, zip, radius_km) ==
    LET radius == RadiusSearch(zip, radius_km) IN
    "\n        SELECT"
    \o "\n            p.provider_id,"
    \o "\n            p.provider_name,"
    \o "\n            p.city,"
    \o "\n            p.state,"
    \o "\n            p.zip,"
    \o "\n            dp.ms_drg_code,"
    \o "\n            dp.ms_drg_description,"
    \o "\n            dp.total_discharges,"
    \o "\n            dp.avg_covered_charges,"
    \o "\n            dp.avg_total_payments,"
    \o "\n            dp.avg_medicare_payments,"
    \o "\n            r.rating" \o (IF radius THEN DistanceSelect ELSE "")
    \o "\n        FROM drg_prices dp"
    \o "\n        JOIN providers p ON p.provider_id = dp.provider_id"
    \o "\n        " \o (IF radius THEN DistanceJoin ELSE "")
    \o "\n        LEFT JOIN ratings r ON r.provider_id = p.provider_id"
    \o "\n        WHERE " \o WhereSql(drg, zip, radius_km)
                          \o (IF radius THEN DistanceCondition ELSE "")
    \o OrderAndLimit
    \o "\n    "

ProbeSql == "SELECT 1 FROM zip_centroids WHERE zip = :z"

\* one call of session.execute: the text, the parameters, what came back
\* (found: how many stored rows the text matched, error: the message of the
\* exception it raised, once it has come back)
Call(kind, sql, params) ==
    [call |-> kind, sql |-> sql, params |-> params, result |-> "pending",
     found |-> 0, error |-> ""]

ProbeCall(zip) == Call("probe", ProbeSql, "z" :> The(zip))
MainCall(drg, zip, radius_km) ==
    Call("main", MainSql(drg, zip, radius_km), Params(drg, zip, radius_km))

\* .first() of the probe: a row when the ZIP has a centroid, else None
ProbeFirst(zip, cents) == IF The(zip) \in cents THEN Some("1") ELSE None

\* (ProbeFails with a fault seeded: the missing centroid is logged and not raised)
ProbeFails_Ignored(first) == FALSE

\* if not src_exists: raise HTTPException(503)
ProbeFails(first) == first = None

HttpError(status, detail) == [status |-> status, detail |-> detail]
HttpOk(body) == [status |-> 200, body |-> body]

Returned(calls, result) ==
    [calls EXCEPT ![Len(calls)] = [@ EXCEPT !.result = result]]

\* the last call came back with rows, of which storage had matched n
ReturnedRows(calls, n) ==
    [calls EXCEPT ![Len(calls)] = [@ EXCEPT !.result = "rows", !.found = n]]

\* the last call raised an exception with message msg
ReturnedError(calls, msg) ==
    [calls EXCEPT ![Len(calls)] = [@ EXCEPT !.result = "error", !.error = msg]]

DigitChars == <<"0","1","2","3","4","5","6","7","8","9">>
DigitValue(c) == (CHOOSE i \in DOMAIN DigitChars : DigitChars[i] = c) - 1

\* the number a string of digits writes
RECURSIVE Number(_)
Number(s) ==
    IF s = "" THEN 0
    ELSE 10 * Number(SubSeq(s, 1, Len(s) - 1)) + DigitValue(Char(s, Len(s)))

\* the row count of the last LIMIT <n> of a text, if it has one
LimitOf(sql) ==
    LET s == Lower(sql)
        at == {i \in 1..Len(s) : WordBoundary(s, i) /\ StartsWithAt(s, i, "limit")}
    IN  IF at = {} THEN None
        ELSE LET a == SpacesEnd(s, Max(at) + Len("limit"))
                 e == IF a = 0 THEN 0 ELSE SkipWhile(s, a, Digits)
             IN  IF a = 0 \/ e = a THEN None
                 ELSE Some(Number(SubSeq(s, a, e - 1)))

\* .all() of an executed text: of the rows storage matched, as many as the
\* LIMIT of the text lets through
Fetched(sql, stored) ==
    IF LimitOf(sql) = None THEN stored
    ELSE SubSeq(stored, 1, Min({Len(stored), The(LimitOf(sql))}))

-----------------------------------------------------------------------------
(* JSON texts as json.loads reads them: objects and arrays of strings,       *)
(* integers, true, false and null.                                           *)

JsonSpace == {" ", "\t", "\n", "\r"}

\* the number of backslashes that end right before place k of s
BackslashesBefore(s, k) ==
    (k - 1) - Max({0} \cup {m \in 1..(k - 1) : Char(s, m) # "\\"})

\* place k of s holds a backslash that opens an escape
OpensEscape(s, k) ==
    k >= 1 /\ k <= Len(s) /\ Char(s, k) = "\\" /\ BackslashesBefore(s, k) % 2 = 0

\* the character an escape stands for
Escapes == ("n" :> "\n") @@ ("t" :> "\t") @@ ("r" :> "\r")
           @@ ("\"" :> "\"") @@ ("\\" :> "\\") @@ ("/" :> "/")

\* the closing quote of the string opened at place i (0 when there is none)
StringEnd(s, i) ==
    LET close == {j \in (i + 1)..Len(s) :
                    Char(s, j) = "\"" /\ BackslashesBefore(s, j) % 2 = 0}
    IN  IF close = {} THEN 0 ELSE Min(close)

\* the places lo..hi of a string body hold no control character and no
\* escape other than the known ones
StringBodyOk(s, lo, hi) ==
    \A k \in lo..hi :
        IF OpensEscape(s, k - 1) THEN Char(s, k) \in DOMAIN Escapes
        ELSE Char(s, k) \notin {"\n", "\t", "\r"}

\* the text the places lo..hi of a string body stand for
RECURSIVE Unescaped(_, _, _)
Unescaped(s, lo, hi) ==
    IF lo > hi THEN ""
    ELSE IF lo = hi
      THEN (IF OpensEscape(s, lo) THEN ""
            ELSE IF OpensEscape(s, lo - 1) THEN Escapes[Char(s, lo)]
            ELSE Char(s, lo))
    ELSE LET mid == (lo + hi) \div 2
         IN  Unescaped(s, lo, mid) \o Unescaped(s, mid + 1, hi)

JsonError == [end |-> 0, val |-> [t |-> "error", v |-> ""]]
JsonValue(end, t, v) == [end |-> end, val |-> [t |-> t, v |-> v]]

\* the end of the integer that starts at place i (0 when there is none)
IntegerEnd(s, i) ==
    LET d == IF Char(s, i) = "-" THEN i + 1 ELSE i
        e == IF d <= Len(s) /\ Char(s, d) = "0" THEN d + 1
             ELSE SkipWhile(s, d, Digits)
    IN  IF d > Len(s) \/ e = d THEN 0
        ELSE IF e <= Len(s) /\ Char(s, e) \in {".", "e", "E"} THEN 0
        ELSE e

\* a string, an integer, true, false or null at place i: the place after it
\* and the value, or JsonError
ParseScalar(s, i) ==
    IF i > Len(s) THEN JsonError
    ELSE IF Char(s, i) = "\""
      THEN With(StringEnd(s, i), LAMBDA e :
           IF e = 0 \/ ~StringBodyOk(s, i + 1, e - 1) THEN JsonError
           ELSE JsonValue(e + 1, "str", Unescaped(s, i + 1, e - 1)))
    ELSE IF StartsWithAt(s, i, "null") THEN JsonValue(i + 4, "null", "")
    ELSE IF StartsWithAt(s, i, "true") THEN JsonValue(i + 4, "true", "")
    ELSE IF StartsWithAt(s, i, "false") THEN JsonValue(i + 5, "false", "")
    ELSE With(IntegerEnd(s, i), LAMBDA e :
         IF e = 0 THEN JsonError ELSE JsonValue(e, "num", SubSeq(s, i, e - 1)))

\* the members of an object from place i (after '{' or ','), added to acc; a
\* key given twice keeps its last value
RECURSIVE ParseMembers(_, _, _)
ParseMembers(s, i, acc) ==
    With(ParseScalar(s, SkipWhile(s, i, JsonSpace)), LAMBDA k :
    IF k.end = 0 \/ k.val.t # "str" THEN JsonError
    ELSE With(SkipWhile(s, k.end, JsonSpace), LAMBDA c :
         IF c > Len(s) \/ Char(s, c) # ":" THEN JsonError
         ELSE With(ParseScalar(s, SkipWhile(s, c + 1, JsonSpace)), LAMBDA v :
              IF v.end = 0 THEN JsonError
              ELSE With(SkipWhile(s, v.end, JsonSpace), LAMBDA n :
                   With((k.val.v :> v.val) @@ acc, LAMBDA more :
                       IF n > Len(s) THEN JsonError
                       ELSE IF Char(s, n) = "}" THEN JsonValue(n + 1, "dict", more)
                       ELSE IF Char(s, n) = "," THEN ParseMembers(s, n + 1, more)
                       ELSE JsonError)))))

\* the elements of an array from place i (after '[' or ',')
RECURSIVE ParseElements(_, _)
ParseElements(s, i) ==
    With(ParseScalar(s, SkipWhile(s, i, JsonSpace)), LAMBDA v :
    IF v.end = 0 THEN JsonError
    ELSE With(SkipWhile(s, v.end, JsonSpace), LAMBDA n :
         IF n > Len(s) THEN JsonError
         ELSE IF Char(s, n) = "]" THEN JsonValue(n + 1, "list", "")
         ELSE IF Char(s, n) = "," THEN ParseElements(s, n + 1)
         ELSE JsonError))

\* json.loads(t): the value read, [t |-> "error"] when it raises
Loads(t) ==
    With(SkipWhile(t, 1, JsonSpace), LAMBDA a :
    With(IF a > Len(t) THEN 0 ELSE SkipWhile(t, a + 1, JsonSpace), LAMBDA inner :
    With(IF a > Len(t) THEN JsonError
         ELSE IF Char(t, a) = "{"
           THEN (IF inner <= Len(t) /\ Char(t, inner) = "}"
                 THEN JsonValue(inner + 1, "dict", <<>>)
                 ELSE ParseMembers(t, a + 1, <<>>))
         ELSE IF Char(t, a) = "["
           THEN (IF inner <= Len(t) /\ Char(t, inner) = "]"
                 THEN JsonValue(inner + 1, "list", "")
                 ELSE ParseElements(t, a + 1))
         ELSE ParseScalar(t, a), LAMBDA r :
        IF r.end = 0 \/ SkipWhile(t, r.end, JsonSpace) <= Len(t)
        THEN JsonError.val
        ELSE r.val)))

\* str(v) of a value read from JSON
PyStr(v) ==
    CASE v.t = "null" -> "None"
      [] v.t = "true" -> "True"
      [] v.t = "false" -> "False"
      [] OTHER -> v.v

-----------------------------------------------------------------------------
(* The translator: generate_nl2sql and _extract_json_obj, src/main.py *)

\* the character of a code fence (a string of this notation cannot hold the
\* backquote itself; no other text of the model uses ^)
BackQuote == "^"

\* the text _extract_json_obj hands to json.loads
ExtractJsonText(text) ==
    With(StripChars(Strip(text), {BackQuote}), LAMBDA t :
    With(IndexOf(t, "{"), LAMBDA start :
    With(LastIndexOf(t, "}"), LAMBDA end :
        IF start # 0 /\ end # 0 /\ end > start THEN SubSeq(t, start, end) ELSE t)))

_extract_json_obj(text) == Loads(ExtractJsonText(text))

\* the result generate_nl2sql returns when it cannot use the content (the
\* typographic quotes of the source are written ')
Fallback ==
    [outcome |-> "guidance",
     sql |-> "",
     guidance |-> "I couldn't understand the request. Try including a DRG code (or a procedure keyword), "
         \o "your ZIP code, and an optional distance. For example: 'Cheapest hospitals for DRG 470 within 25 km of 10001'.",
     follow_up |-> "Could you share a DRG code and your ZIP code?"]

Raised(exc, msg) ==
    [outcome |-> "raise", sql |-> "", guidance |-> msg, follow_up |-> "", exc |-> exc]

\* str(obj.get(key, ""))
GetStr(obj, key) == IF key \in DOMAIN obj THEN PyStr(obj[key]) ELSE ""

\* the body of the try block of generate_nl2sql: the parsed result, or what
\* it raises
ParsedContent(content) ==
    With(_extract_json_obj(content), LAMBDA obj :
    IF obj.t = "error" THEN Raised("JSONDecodeError", "Expecting value")
    ELSE IF obj.t # "dict" THEN Raised("AttributeError", "object has no attribute 'get'")
    ELSE With(Lower(GetStr(obj.v, "outcome")), LAMBDA outcome :
         IF outcome \notin {"sql", "guidance"} THEN Raised("ValueError", "invalid outcome")
         ELSE [outcome |-> outcome, sql |-> GetStr(obj.v, "sql"),
               guidance |-> GetStr(obj.v, "guidance"),
               follow_up |-> GetStr(obj.v, "follow_up")]))

\* (Catches with a fault seeded: only ValueError is caught)
Catches_ValueErrorOnly(exc) == exc \in {"ValueError", "JSONDecodeError"}

\* except Exception
Catches(exc) == TRUE

\* generate_nl2sql from the moment the completion is back: content is
\* resp.choices[0].message.content, None included
Nl2sqlResult(content) ==
    With(IF content = None \/ The(content) = "" THEN "{}" ELSE The(content), LAMBDA text :
    With(ParsedContent(text), LAMBDA r :
        IF r.outcome = "raise" /\ Catches(r.exc) THEN Fallback ELSE r))

-----------------------------------------------------------------------------
(* The contents a completion may carry.  A content is described by its      *)
(* parts, so that whether it holds an object and what its outcome is are    *)
(* known from its construction; RenderContent gives the text itself.        *)

Absent == [t |-> "absent", v |-> ""]
Str(v) == [t |-> "str", v |-> v]
Num(v) == [t |-> "num", v |-> v]
Null == [t |-> "null", v |-> ""]
True == [t |-> "true", v |-> ""]

\* json.dumps of the characters lo..hi of a string
RECURSIVE Escaped(_, _, _)
Escaped(s, lo, hi) ==
    IF lo > hi THEN ""
    ELSE IF lo = hi
      THEN (CASE Char(s, lo) = "\"" -> "\\\""
              [] Char(s, lo) = "\\" -> "\\\\"
              [] Char(s, lo) = "\n" -> "\\n"
              [] Char(s, lo) = "\t" -> "\\t"
              [] OTHER -> Char(s, lo))
    ELSE LET mid == (lo + hi) \div 2
         IN  Escaped(s, lo, mid) \o Escaped(s, mid + 1, hi)

JsonString(v) == "\"" \o Escaped(v, 1, Len(v)) \o "\""

JsonOf(d) ==
    CASE d.t = "str" -> JsonString(d.v)
      [] d.t = "num" -> d.v
      [] OTHER -> d.t

Member(key, d) ==
    IF d.t = "absent" THEN <<>> ELSE <<JsonString(key) \o ": " \o JsonOf(d)>>

ObjectText(c) ==
    "{" \o JoinWith(Member("outcome", c.outcome) \o Member("sql", c.sql)
                    \o Member("guidance", c.guidance)
                    \o Member("follow_up", c.follow_up), ", ") \o "}"

Wraps == {"plain", "fenced", "prose", "list", "padded", "braces"}

Wrapped(wrap, body) ==
    CASE wrap = "fenced" ->
           BackQuote \o BackQuote \o BackQuote \o "json\n" \o body \o "\n"
           \o BackQuote \o BackQuote \o BackQuote
      [] wrap = "prose" -> "Here is the JSON you asked for:\n" \o body \o "\nHope it helps."
      [] wrap = "list" -> "[" \o body \o "]"
      [] wrap = "padded" -> " \n\t" \o body \o "\n "
      [] wrap = "braces" -> "Use {braces}: " \o body
      [] OTHER -> body

Obj(wrap, outcome, sql, guidance, follow_up) ==
    [shape |-> "object", raw |-> "", wrap |-> wrap, outcome |-> outcome,
     sql |-> sql, guidance |-> guidance, follow_up |-> follow_up]

Raw(wrap, raw) ==
    [shape |-> "raw", raw |-> raw, wrap |-> wrap, outcome |-> Absent,
     sql |-> Absent, guidance |-> Absent, follow_up |-> Absent]

\* message.content is None
NoContent ==
    [shape |-> "none", raw |-> "", wrap |-> "plain", outcome |-> Absent,
     sql |-> Absent, guidance |-> Absent, follow_up |-> Absent]

\* resp.choices[0].message.content for a described content
RenderContent(c) ==
    IF c.shape = "none" THEN None
    ELSE Some(Wrapped(c.wrap, IF c.shape = "object" THEN ObjectText(c) ELSE c.raw))

OutcomeValues ==
    {Absent, Str("sql"), Str("guidance"), Str("SQL"), Str("Guidance"),
     Str("maybe"), Str(""), Str(" sql"), Str("sql\n"), Null, Num("1"), True}

SqlValues ==
    {Absent, Null, Str("SELECT 1"),
     Str("SELECT p.zip FROM providers p\n\tWHERE p.provider_name = 'A \"B\" \\ C' LIMIT 100")}

ObjectContents ==
    {Obj(w, o, sq, g, f) :
        w \in Wraps, o \in OutcomeValues, sq \in SqlValues,
        g \in {Absent, Str("Please add a ZIP.")},
        f \in {Absent, Null, Str("ZIP?")}}

\* bodies from which no object can be read
RawBodies ==
    {"", "null", "5", "-12", "\"sql\"", "[1, 2]", "[]", "[\"sql\", null]", "sql",
     "I cannot help with that.", "{", "}", "}{",
     "{\"outcome\": \"sql\"",
     "{'outcome': 'sql'}",
     "{\"outcome\": \"sql\",}",
     "{\"outcome\": sql}",
     "{\"outcome\" \"sql\"}",
     "{\"outcome\": 05}",
     "{\"outcome\": \"s\\ql\"}",
     "{\"outcome\": \"sql\", \"sql\": \"SELECT 1\nLIMIT 1\"}",
     "{\"outcome\": \"sql\"}{\"outcome\": \"sql\"}"}

RawContents == {Raw(w, r) : w \in Wraps, r \in RawBodies}

Contents == ObjectContents \cup RawContents \cup {NoContent}

-----------------------------------------------------------------------------
(* SpecNl: generate_nl2sql applied once to each described content *)

InitNl ==
    /\ q \in Contents
    /\ verdict = None
    /\ pc = "idle"
    /\ req = Idle
    /\ llm = None
    /\ executed = <<>>
    /\ checked = <<>>
    /\ resp = None
    /\ centroids = {}
    /\ completions = 0
    /\ GeoIdle
    /\ MoreIdle

Parse ==
    /\ verdict = None
    /\ verdict' = Some(Nl2sqlResult(RenderContent(q)))
    /\ UNCHANGED geoVars
    /\ UNCHANGED moreVars
    /\ UNCHANGED <<q, pc, req, llm, executed, checked, resp, centroids, completions>>

NextNl == Parse

SpecNl == InitNl /\ [][NextNl]_vars

\* what a described content holds
Parsed == verdict # None
Readable(c) == c.shape = "object" /\ c.wrap # "braces"
ExactOutcome(c) == c.outcome.t = "str" /\ c.outcome.v \in {"sql", "guidance"}
FoldedOutcome(c) == c.outcome.t = "str" /\ Lower(c.outcome.v) \in {"sql", "guidance"}

\* C14: generate_nl2sql does not raise on the content, and for a content that
\* holds no object, or whose outcome is absent or is not exactly "sql" or
\* "guidance", it returns the fixed guidance result.
C14_MalformedGivesFallback ==
    Parsed =>
        /\ The(verdict).outcome # "raise"
        /\ (~Readable(q) \/ ~ExactOutcome(q)) => verdict = Some(Fallback)

\* C14 with the outcome compared as the code compares it: generate_nl2sql
\* does not raise on the content, and for a content from which no object can
\* be read (after the code fence and the text around the outermost braces
\* are dropped), or whose outcome, lowercased, is absent or neither "sql" nor
\* "guidance", it returns the fixed guidance result; every other content gives
\* its own outcome.
C14_MalformedGivesFallback_Folded ==
    Parsed =>
        /\ The(verdict).outcome \in {"sql", "guidance"}
        /\ (~Readable(q) \/ ~FoldedOutcome(q)) => verdict = Some(Fallback)
        /\ (Readable(q) /\ FoldedOutcome(q)) =>
              The(verdict).outcome = Lower(q.outcome.v)

\* C14 witness: a JSON array, which is no object, has been answered with the
\* fixed guidance result.
C14_Witness ==
    /\ Parsed /\ q.shape = "raw" /\ q.raw = "[1, 2]" /\ q.wrap = "plain"
    /\ verdict = Some(Fallback)

-----------------------------------------------------------------------------
(* Spec: the request handlers GET /providers and POST /ask, one request at  *)
(* a time, each cut at its awaits; the bulk loader may add centroid rows    *)
(* to storage while a request is in flight.                                 *)

DrgValues == {None, Some(""), Some("470"), Some("023' OR 1=1 --"),
              Some("x'; DROP TABLE providers; --")}
ZipValues == {None, Some(""), Some("10001"), Some("99999")}
RadiusValues == {None, Some(0), Some(-5), Some(25)}
Questions == {None, Some("hello?"),
              Some("Who is cheapest for DRG 470 within 25 miles of 10001?")}

Row == [provider_id |-> "010001", provider_name |-> "Southeast Health", zip |-> "10001"]
RowSets == {<<>>, <<Row>>}

\* what the provider tables may hold for a main query: none, one, as many as
\* the cap and more than the cap
StoredCounts == {0, 1, 100, 101}
StoredRows == {[i \in 1..n |-> Row] : n \in StoredCounts}

\* the texts a model answer may carry
AskSqlTexts ==
    {"SELECT p.provider_id, p.provider_name, p.zip, dp.ms_drg_code, r.rating "
       \o "FROM drg_prices dp JOIN providers p ON p.provider_id = dp.provider_id "
       \o "LEFT JOIN ratings r ON r.provider_id = p.provider_id "
       \o "WHERE dp.ms_drg_code = '470' LIMIT 100",
     "  select p.zip from providers p;\n",
     "DROP TABLE providers",
     "SELECT * FROM users LIMIT 10",
     "select dp.ms_drg_code from drg_prices dp",
     ""}

\* the contents a completion may carry in reply to a question
AskContents ==
    {Obj("plain", Str("sql"), Str(t), Absent, f) :
        t \in AskSqlTexts, f \in {Absent, Str("Consider adding a ZIP.")}}
    \cup {Obj("fenced", Str("SQL"), Str("SELECT * FROM users LIMIT 10"), Absent, Absent)}
    \cup {Obj("plain", Str("guidance"), sq, Str("Please add a ZIP."), Str("ZIP?")) :
            sq \in {Absent, Null, Str(""), Str("SELECT 1")}}
    \cup {Obj("plain", Str("guidance"), Absent, Absent, Absent),
          Raw("plain", "I cannot help with that."), Raw("plain", "[1, 2]"),
          NoContent}

\* what client.chat.completions.create gives: a content, or an exception
Replies ==
    {[kind |-> "exception", error |-> e, c |-> NoContent] :
        e \in {"Request timed out.", "Connection error."}}
    \cup {[kind |-> "content", error |-> "", c |-> c] : c \in AskContents}

\* generate_nl2sql on each of these contents, tabulated
Nl2sqlOf == [c \in AskContents |-> Nl2sqlResult(RenderContent(c))]

\* no completion was asked for: OPENAI_API_KEY is not set
NoKey == [kind |-> "nokey", error |-> "OPENAI_API_KEY not configured", c |-> NoContent]

\* what the text of a model may fail with in storage
ExecErrors == {"boom", "column p.price does not exist"}

AskResponse(answer, results, follow_up, sql) ==
    [status |-> 200, answer |-> answer, results |-> results,
     follow_up |-> follow_up, sql |-> sql]

\* x or None
OrNone(x) == IF x = "" THEN None ELSE Some(x)

\* sql if (body.include_sql or False) else None
IfIncluded(include_sql, sql) == IF include_sql = Some(TRUE) THEN Some(sql) ELSE None

\* (AskRuns with a fault seeded: the verdict is not looked at)
AskRuns_Always(v) == TRUE

\* if not ok: return AskResponse("Unsafe SQL: ...") without executing
AskRuns(v) == v.ok

Init ==
    /\ q = Idle
    /\ verdict = None
    /\ pc = "idle"
    /\ req = Idle
    /\ llm = None
    /\ executed = <<>>
    /\ checked = <<>>
    /\ resp = None
    /\ centroids = {"10001"}
    /\ completions = 0
    /\ GeoIdle
    /\ MoreIdle

\* GET /providers, up to its first await or to the 400
GetProviders(drg, zip, radius_km) ==
    /\ pc = "idle"
    /\ req' = [kind |-> "providers", drg |-> drg, zip |-> zip, radius_km |-> radius_km]
    /\ IF MissingFilters(drg, zip)
       THEN /\ resp' = Some(HttpError(400, "Please provide at least drg or zip"))
            /\ pc' = "done"
            /\ UNCHANGED executed
       ELSE IF RadiusSearch(zip, radius_km)
       THEN /\ executed' = Append(executed, ProbeCall(zip))
            /\ pc' = "probe"
            /\ UNCHANGED resp
       ELSE /\ executed' = Append(executed, MainCall(drg, zip, radius_km))
            /\ pc' = "main"
            /\ UNCHANGED resp
    /\ UNCHANGED geoVars
    /\ UNCHANGED moreVars
    /\ UNCHANGED <<q, verdict, llm, checked, centroids, completions>>

\* the centroid probe comes back: 503 without a row, else the main query
ProbeReturns ==
    /\ pc = "probe"
    /\ \/ /\ executed' = Returned(executed, "error")
          /\ resp' = Some(HttpError(500, "Internal Server Error"))
          /\ pc' = "done"
       \/ LET first == ProbeFirst(req.zip, centroids) IN
          IF ProbeFails(first)
          THEN /\ executed' = Returned(executed, "empty")
               /\ resp' = Some(HttpError(503, "zip centroid not available"))
               /\ pc' = "done"
          ELSE /\ executed' = Append(Returned(executed, IF first = None THEN "empty" ELSE "row"),
                                     MainCall(req.drg, req.zip, req.radius_km))
               /\ pc' = "main"
               /\ UNCHANGED resp
    /\ UNCHANGED geoVars
    /\ UNCHANGED moreVars
    /\ UNCHANGED <<q, verdict, req, llm, checked, centroids, completions>>

\* the main query comes back: the rows, or the storage error
MainReturns ==
    /\ pc = "main"
    /\ \/ /\ executed' = Returned(executed, "error")
          /\ resp' = Some(HttpError(500, "Internal Server Error"))
       \/ \E stored \in StoredRows :
            /\ executed' = ReturnedRows(executed, Len(stored))
            /\ resp' = Some(HttpOk(Fetched(executed[Len(executed)].sql, stored)))
    /\ pc' = "done"
    /\ UNCHANGED geoVars
    /\ UNCHANGED moreVars
    /\ UNCHANGED <<q, verdict, req, llm, checked, centroids, completions>>

\* (NlFailed with a fault seeded: the failure is answered as guidance)
NlFailed_AsGuidance(msg) ==
    AskResponse(Fallback.guidance, <<>>, Some(Fallback.follow_up), None)

\* except Exception as exc: return AskResponse(answer=f"NL2SQL failed: {exc}", results=[])
NlFailed(msg) == AskResponse("NL2SQL failed: " \o msg, <<>>, None, None)

\* (ExecFailed with a fault seeded: a row is handed back with the error)
ExecFailed_WithRows(msg) ==
    AskResponse("SQL execution error: " \o msg, <<Row>>, None, None)

\* except Exception as exc: return AskResponse(answer=f"SQL execution error: {exc}", ...)
ExecFailed(msg) == AskResponse("SQL execution error: " \o msg, <<>>, None, None)

\* (Completion with a fault seeded: the request is sent a second time)
Completion_Twice(n) == n + 2

\* client.chat.completions.create is called once
Completion(n) == n + 1

\* the select list of a text: what stands between SELECT and FROM
SelectList(sql) ==
    LET s == Lower(sql)
        from == {i \in 1..Len(s) : WordBoundary(s, i) /\ StartsWithAt(s, i, "from")}
    IN  SubSeq(s, Len("select") + 1, IF from = {} THEN Len(s) ELSE Min(from) - 1)

\* a stored row as the text selects it: the columns its select list names
Projected(sql, row) ==
    LET list == SelectList(sql)
        cols == {c \in DOMAIN row : Contains(list, "*") \/ Contains(list, c)}
    IN  [c \in cols |-> row[c]]

\* ProviderOut(**dict(r)) raises a ValidationError when a required field is
\* missing
RequiredFields == {"provider_id", "provider_name", "zip"}
FitsProviderOut(row) == RequiredFields \subseteq DOMAIN row

\* POST /ask, up to the completion request of generate_nl2sql; key: whether
\* OPENAI_API_KEY is set
Ask(question, include_sql, key) ==
    /\ pc = "idle"
    /\ req' = [kind |-> "ask", question |-> question, include_sql |-> include_sql]
    /\ IF ~key
       THEN LET r == Raised("RuntimeError", "OPENAI_API_KEY not configured") IN
            /\ llm' = Some([reply |-> NoKey] @@ r)
            /\ resp' = Some(NlFailed(r.guidance))
            /\ pc' = "done"
            /\ UNCHANGED completions
       ELSE /\ completions' = Completion(completions)
            /\ pc' = "llm"
            /\ UNCHANGED <<llm, resp>>
    /\ UNCHANGED geoVars
    /\ UNCHANGED moreVars
    /\ UNCHANGED <<q, verdict, executed, checked, centroids>>

\* the completion is back: generate_nl2sql returns or raises; then failure,
\* guidance, or a text that is validated and, when accepted, executed
LlmReturns(reply) ==
    /\ pc = "llm"
    /\ LET result == IF reply.kind = "exception"
                     THEN Raised("APIError", reply.error)
                     ELSE Nl2sqlOf[reply.c]
       IN
       /\ llm' = Some([reply |-> reply] @@ result)
       /\ IF result.outcome = "raise"
          THEN /\ resp' = Some(NlFailed(result.guidance))
               /\ pc' = "done"
               /\ UNCHANGED <<executed, checked>>
          ELSE IF result.outcome # "sql"
          THEN /\ resp' = Some(AskResponse(result.guidance, <<>>, OrNone(result.follow_up),
                                           IfIncluded(req.include_sql, result.sql)))
               /\ pc' = "done"
               /\ UNCHANGED <<executed, checked>>
          ELSE LET sql == Strip(result.sql) IN
               \E v \in _sql_is_safe(sql) :
                 /\ checked' = Append(checked, [sql |-> sql, ok |-> v.ok, reason |-> v.reason])
                 /\ IF ~AskRuns(v)
                    THEN /\ resp' = Some(AskResponse("Unsafe SQL: " \o v.reason, <<>>, None,
                                                     IfIncluded(req.include_sql, sql)))
                         /\ pc' = "done"
                         /\ UNCHANGED executed
                    ELSE /\ executed' = Append(executed, Call("ask", sql, <<>>))
                         /\ pc' = "ask_exec"
                         /\ UNCHANGED resp
    /\ UNCHANGED geoVars
    /\ UNCHANGED moreVars
    /\ UNCHANGED <<q, verdict, req, centroids, completions>>

\* (ResultsFor with a fault seeded: the question is not echoed)
ResultsFor_NoQuestion(question) == "Results for: "

\* answer=f"Results for: {body.question or ''}"
ResultsFor(question) ==
    "Results for: " \o (IF question = None THEN "" ELSE The(question))

\* the model's query comes back: the storage error, or the rows, each made a
\* ProviderOut; a row that does not fit raises out of the handler
AskExecReturns ==
    /\ pc = "ask_exec"
    /\ LET result == The(llm)
           sql == executed[Len(executed)].sql
       IN  \/ \E msg \in ExecErrors :
                /\ executed' = ReturnedError(executed, msg)
                /\ resp' = Some(ExecFailed(msg))
           \/ \E stored \in RowSets :
                LET rows == [i \in DOMAIN Fetched(sql, stored) |->
                               Projected(sql, Fetched(sql, stored)[i])]
                    kept == SelectSeq(rows, LAMBDA r : DOMAIN r # {})
                IN  /\ executed' = ReturnedRows(executed, Len(stored))
                    /\ IF \E i \in DOMAIN kept : ~FitsProviderOut(kept[i])
                       THEN resp' = Some(HttpError(500, "Internal Server Error"))
                       ELSE resp' = Some(AskResponse(
                              ResultsFor(req.question),
                              kept, OrNone(result.follow_up), IfIncluded(req.include_sql, sql)))
    /\ pc' = "done"
    /\ UNCHANGED geoVars
    /\ UNCHANGED moreVars
    /\ UNCHANGED <<q, verdict, req, llm, checked, centroids, completions>>

\* the response is sent; the next request gets a fresh session
Finish ==
    /\ pc = "done"
    /\ pc' = "idle"
    /\ req' = Idle
    /\ llm' = None
    /\ executed' = <<>>
    /\ checked' = <<>>
    /\ resp' = None
    /\ completions' = 0
    /\ UNCHANGED geoVars
    /\ UNCHANGED moreVars
    /\ UNCHANGED <<q, verdict, centroids>>

\* the bulk loader inserts a centroid row (ON CONFLICT DO NOTHING)
EtlInsertsCentroid(z) ==
    /\ z \notin centroids
    /\ centroids' = centroids \cup {z}
    /\ UNCHANGED geoVars
    /\ UNCHANGED moreVars
    /\ UNCHANGED <<q, verdict, pc, req, llm, executed, checked, resp, completions>>

Next ==
    \/ \E drg \in DrgValues, zip \in ZipValues, radius_km \in RadiusValues :
         GetProviders(drg, zip, radius_km)
    \/ ProbeReturns
    \/ MainReturns
    \/ \E question \in Questions, include_sql \in {None, Some(FALSE), Some(TRUE)},
          key \in BOOLEAN :
         Ask(question, include_sql, key)
    \/ \E reply \in Replies : LlmReturns(reply)
    \/ AskExecReturns
    \/ Finish
    \/ \E z \in {"99999"} : EtlInsertsCentroid(z)

Spec == Init /\ [][Next]_vars

-----------------------------------------------------------------------------
(* Properties of the request handlers *)

Responded == resp # None
Status == The(resp).status

ValidatedOk(sql) ==
    \E j \in DOMAIN checked : checked[j].sql = sql /\ checked[j].ok

\* C1: every text handed to session.execute, by GET /providers and by
\* POST /ask alike, was accepted by _sql_is_safe before.
C1_EveryExecutedValidated ==
    \A i \in DOMAIN executed : ValidatedOk(executed[i].sql)

\* What the code does instead of C1: every text POST /ask hands to
\* session.execute was accepted by _sql_is_safe before; the probe and the main
\* query of GET /providers are executed without _sql_is_safe being called.
C1_OnlyAskValidated ==
    \A i \in DOMAIN executed :
        IF executed[i].call = "ask"
        THEN ValidatedOk(executed[i].sql)
        ELSE req.kind = "providers" /\ checked = <<>>

\* POST /ask is executing a model-generated text, validated before.
C1_Witness ==
    /\ pc = "ask_exec" /\ req.kind = "ask"
    /\ executed # <<>> /\ executed[1].call = "ask"

\* C7: in POST /ask with outcome sql the text is validated before any storage
\* call; a rejected text gives the answer "Unsafe SQL: <reason>" with empty
\* results, and session.execute is not called for that request.
C7_RejectedNeverExecuted ==
    (req.kind = "ask" /\ llm # None /\ The(llm).outcome = "sql") =>
        /\ Len(checked) = 1
        /\ checked[1].sql = Strip(The(llm).sql)
        /\ \A i \in DOMAIN executed :
             i = 1 /\ executed[i].call = "ask" /\ executed[i].sql = checked[1].sql
        /\ checked[1].ok => executed # <<>>
        /\ ~checked[1].ok =>
             /\ executed = <<>>
             /\ pc = "done"
             /\ Responded
             /\ The(resp).answer = "Unsafe SQL: " \o checked[1].reason
             /\ The(resp).results = <<>>

\* C7 witness: a text naming a table outside the allow-list has been rejected
\* and answered.
C7_Witness ==
    /\ req.kind = "ask" /\ checked # <<>> /\ ~checked[1].ok
    /\ checked[1].reason = "Table 'users' is not allowed"
    /\ Responded /\ executed = <<>>

\* C8: with drg and zip both absent or empty, whatever the radius,
\* _query_providers fails with 400 and makes no storage call.
C8_NoFilters400 ==
    (req.kind = "providers" /\ ~Truthy(req.drg) /\ ~Truthy(req.zip)) =>
        /\ pc = "done"
        /\ resp = Some(HttpError(400, "Please provide at least drg or zip"))
        /\ executed = <<>>

\* C8 witness: an empty drg, no zip and a positive radius were answered 400.
C8_Witness ==
    /\ req.kind = "providers" /\ req.drg = Some("") /\ req.zip = None
    /\ req.radius_km = Some(25)
    /\ Responded /\ Status = 400

\* C9: for every drg value the texts executed never contain the value; the
\* main query holds the placeholders :drg and :drg_like, and the value is in
\* the parameter map only, as drg and, between % signs, as drg_like.
C9_DrgOnlyInParams ==
    (req.kind = "providers" /\ Truthy(req.drg)) =>
        \A i \in DOMAIN executed :
            /\ ~Contains(executed[i].sql, The(req.drg))
            /\ executed[i].call = "main" =>
                 /\ Contains(executed[i].sql,
                      "(dp.ms_drg_code = :drg OR dp.ms_drg_description ILIKE :drg_like)")
                 /\ executed[i].params["drg"] = The(req.drg)
                 /\ executed[i].params["drg_like"] = "%" \o The(req.drg) \o "%"

\* C9 witness: the main query was executed for a drg value that holds a quote,
\* a statement separator and a DROP.
C9_Witness ==
    /\ req.kind = "providers" /\ req.drg = Some("x'; DROP TABLE providers; --")
    /\ \E i \in DOMAIN executed : executed[i].call = "main"

MainCalls == {i \in DOMAIN executed : executed[i].call = "main"}

HaversineCall == "haversine_km(zc_src.lat, zc_src.lng, zc_dest.lat, zc_dest.lng)"

C13_OrderedAndCapped ==
    req.kind = "providers" =>
        /\ \A i \in MainCalls :
              /\ EndsWith(Strip(executed[i].sql),
                    "ORDER BY dp.avg_covered_charges ASC NULLS LAST\n        LIMIT 100")
              /\ Occurrences(executed[i].sql, "ORDER BY") = 1
              /\ LimitOf(executed[i].sql) = Some(100)
        /\ (Responded /\ Status = 200) => Len(The(resp).body) <= 100

\* C13 witness: storage matched 101 rows and the response has 100.
C13_Witness ==
    /\ req.kind = "providers" /\ Responded /\ Status = 200
    /\ executed[Len(executed)].found = 101
    /\ Len(The(resp).body) = 100

-----------------------------------------------------------------------------
(* Properties of POST /ask *)

AskResponded == req.kind = "ask" /\ Responded

\* the answer text of the response, "" when the response carries none
Answer == IF Responded /\ "answer" \in DOMAIN The(resp) THEN The(resp).answer ELSE ""

\* what the completion call of the request in flight gave
Reply == The(llm).reply

\* the external call failed: it raised, or the key for it is missing
CallFailed == llm # None /\ Reply.kind \in {"exception", "nokey"}

\* the content described an object with one of the two outcomes
Answered(outcome) ==
    /\ llm # None /\ Reply.kind = "content"
    /\ Readable(Reply.c) /\ FoldedOutcome(Reply.c)
    /\ Lower(Reply.c.outcome.v) = outcome

\* the content was none of the two
Malformed ==
    /\ llm # None /\ Reply.kind = "content"
    /\ ~(Readable(Reply.c) /\ FoldedOutcome(Reply.c))

\* the text of a described value, as the translator hands it on
TextOf(d) == IF d.t = "absent" THEN "" ELSE PyStr(d)

\* C15: every POST /ask ends in an AskResponse, never in an exception that
\* leaves the handler, whatever the translator and storage do; a failure
\* gives an answer text and empty results.
C15_AlwaysStructured ==
    AskResponded =>
        /\ Status = 200
        /\ "answer" \in DOMAIN The(resp)
        /\ (CallFailed \/ Malformed
            \/ (checked # <<>> /\ ~checked[1].ok)
            \/ (executed # <<>> /\ executed[1].result = "error")) =>
              /\ The(resp).answer # ""
              /\ The(resp).results = <<>>

\* C16: a failed external call is answered "NL2SQL failed: <error>", a model
\* that declines is answered with its guidance message, a rejected text with
\* "Unsafe SQL: <reason>"; a failed call is not answered as guidance and the
\* completion is not asked for again.
C16_FailuresDistinct ==
    /\ completions <= 1
    /\ AskResponded =>
        /\ CallFailed =>
             /\ resp = Some(AskResponse("NL2SQL failed: " \o Reply.error, <<>>, None, None))
             /\ completions = (IF Reply.kind = "nokey" THEN 0 ELSE 1)
             /\ checked = <<>> /\ executed = <<>>
        /\ Answered("guidance") =>
             /\ The(resp).answer = TextOf(Reply.c.guidance)
             /\ The(resp).results = <<>>
             /\ ~StartsWith(The(resp).answer, "NL2SQL failed: ")
             /\ ~StartsWith(The(resp).answer, "Unsafe SQL: ")
        /\ Malformed =>
             /\ The(resp).answer = Fallback.guidance
             /\ The(resp).results = <<>>
        /\ (checked # <<>> /\ ~checked[1].ok) =>
             /\ Answered("sql")
             /\ The(resp).answer = "Unsafe SQL: " \o checked[1].reason
             /\ The(resp).results = <<>>
        /\ StartsWith(Answer, "NL2SQL failed: ") <=> CallFailed
        /\ StartsWith(Answer, "Unsafe SQL: ") <=> (checked # <<>> /\ ~checked[1].ok)

\* C16 witness: the completion call timed out and the answer says so.
C16_Witness ==
    /\ AskResponded /\ CallFailed /\ Reply.kind = "exception"
    /\ The(resp).answer = "NL2SQL failed: Request timed out."
    /\ completions = 1

\* C17: when storage raises on the accepted text of a model, the answer is
\* "SQL execution error: <message>" and results is empty.
C17_ExecutionErrorAnswered ==
    (req.kind = "ask" /\ executed # <<>> /\ executed[1].result = "error") =>
        /\ AskResponded
        /\ resp = Some(AskResponse("SQL execution error: " \o executed[1].error,
                                   <<>>, None, None))

\* C17 witness: storage refused an accepted text for an unknown column.
C17_Witness ==
    /\ AskResponded /\ Len(executed) = 1 /\ executed[1].call = "ask"
    /\ executed[1].result = "error"
    /\ The(resp).answer = "SQL execution error: column p.price does not exist"

\* C18: a POST /ask whose completion came back with a content (the paths
\* sql, guidance, unsafe text and execution error) has sent exactly one
\* completion request, and no request ever sends more than one.
C18_OneCompletion ==
    /\ completions <= 1
    /\ (req.kind = "ask" /\ pc \in {"llm", "ask_exec"}) => completions = 1
    /\ (AskResponded /\ Reply.kind = "content") => completions = 1

\* C18 witness: a request answered with the guidance of the model has sent
\* one completion request.
C18_Witness ==
    /\ AskResponded /\ Answered("guidance")
    /\ The(resp).answer = "Please add a ZIP."
    /\ completions = 1

\* the content described a query text
QueryProduced ==
    /\ llm # None /\ Reply.kind = "content"
    /\ Readable(Reply.c) /\ Reply.c.sql.t = "str" /\ Reply.c.sql.v # ""

\* C19: in every POST /ask response sql is filled only when include_sql is
\* true and a query was produced: it is absent when include_sql is false or
\* missing, and absent on the guidance and failure paths that produced no
\* query.
C19_SqlOnlyWhenProduced ==
    (AskResponded /\ Status = 200) =>
        /\ req.include_sql # Some(TRUE) => The(resp).sql = None
        /\ The(resp).sql \notin {None, Some("")} => QueryProduced
        /\ CallFailed => The(resp).sql = None

-----------------------------------------------------------------------------
(* src/geo.py: the reference file and its lines *)

\* str.split(sep) for a separator of one character
RECURSIVE Split(_, _)
Split(s, sep) ==
    LET i == IndexOf(s, sep)
    IN  IF i = 0 THEN <<s>>
        ELSE <<SubSeq(s, 1, i - 1)>> \o Split(SubSeq(s, i + 1, Len(s)), sep)

\* str.isdigit() of an ASCII text
IsDigit(s) == s # "" /\ \A i \in 1..Len(s) : Char(s, i) \in Digits

\* the digits of a fraction without its trailing zeros
FractionDigits(s) ==
    LET keep == {i \in 1..Len(s) : Char(s, i) # "0"}
    IN  IF keep = {} THEN "" ELSE SubSeq(s, 1, Max(keep))

\* float(text): {} stands for ValueError. The value is kept exactly, as
\* sign, whole part and fraction digits, so that "40.750" and "40.75" are
\* the same number. Handles surrounding whitespace, a sign, nan, inf and
\* infinity, and decimals with at most one point; texts with an exponent or
\* with "_" between digits are not among the columns modelled here.
Float(text) ==
    With(Strip(text), LAMBDA t :
    With(t # "" /\ Char(t, 1) \in {"+", "-"}, LAMBDA signed :
    With(signed /\ Char(t, 1) = "-", LAMBDA neg :
    With(IF signed THEN SubSeq(t, 2, Len(t)) ELSE t, LAMBDA body :
    With(IndexOf(body, "."), LAMBDA dot :
    With(IF dot = 0 THEN body ELSE SubSeq(body, 1, dot - 1), LAMBDA whole :
    With(IF dot = 0 THEN "" ELSE SubSeq(body, dot + 1, Len(body)), LAMBDA frac :
        IF Lower(body) = "nan"
        THEN Some([kind |-> "nan", neg |-> neg, whole |-> 0, frac |-> ""])
        ELSE IF Lower(body) \in {"inf", "infinity"}
        THEN Some([kind |-> "inf", neg |-> neg, whole |-> 0, frac |-> ""])
        ELSE IF IsDigit(whole \o frac)
        THEN Some([kind |-> "num", neg |-> neg, whole |-> Number(whole),
                   frac |-> FractionDigits(frac)])
        ELSE None)))))))

\* s[:5]
First5(s) == SubSeq(s, 1, Min({5, Len(s)}))

\* parts[-k] of a list
FromEnd(parts, k) == parts[Len(parts) - k + 1]

\* one line of the file: {} when the loop skips it (continue), otherwise the
\* entry it stores
ParseLine(line) ==
    With(Strip(line), LAMBDA s :
    With(Split(s, "\t"), LAMBDA parts :
    With(IF Len(parts) < 2 THEN "" ELSE First5(Strip(parts[2])), LAMBDA zip_code :
        IF s = "" \/ StartsWith(s, "#") THEN None
        ELSE IF Len(parts) < 6 THEN None
        ELSE IF zip_code = "" \/ ~IsDigit(zip_code) THEN None
        ELSE With(Float(FromEnd(parts, 3)), LAMBDA lat :
             With(Float(FromEnd(parts, 2)), LAMBDA lon :
                 IF lat = None \/ lon = None THEN None
                 ELSE Some([zip |-> zip_code, coords |-> <<The(lat), The(lon)>>]))))))

\* "\t".join(parts)
RECURSIVE Join(_, _)
Join(parts, sep) ==
    IF parts = <<>> THEN ""
    ELSE IF Len(parts) = 1 THEN parts[1]
    ELSE parts[1] \o sep \o Join(Tail(parts), sep)

\* A line of the file is described by its columns, so that what it holds is
\* known from its construction; LineText gives the line itself.
Line(cols) == [cols |-> cols, comment |-> FALSE, blank |-> FALSE]
CommentLine(cols) == [cols |-> cols, comment |-> TRUE, blank |-> FALSE]
BlankLine(text) == [cols |-> <<text>>, comment |-> FALSE, blank |-> TRUE]

LineText(d) == Join(d.cols, "\t")

\* the lines a reference file may hold: two ZIPs, a second entry for the
\* first ZIP, a comment, a blank line, a line that is too short, a ZIP that
\* is not digits, a latitude that is not a number, a line whose last column
\* (accuracy) is empty, a ZIP of three digits and a ZIP+4
GeoRows ==
    { Line(<<"US", "10001", "New York", "New York", "NY", "New York", "061", "40.7484", "-73.9967", "4">>),
      Line(<<"US", "94105", "San Francisco", "California", "CA", "San Francisco", "075", "37.7898", "-122.3942", "4">>),
      Line(<<"US", "10001", "Manhattan", "NY", "40.750", "-73.99", "1">>),
      CommentLine(<<"# country", "zip", "city", "state", "abbr", "county", "code", "lat", "lon", "acc">>),
      BlankLine("  "),
      Line(<<"US", "60601", "41.8858", "-87.6181", "4">>),
      Line(<<"CA", "K1A 0B1", "Ottawa", "Ontario", "ON", "Ottawa", "45.4215", "-75.6972", "6">>),
      Line(<<"US", "60601", "Chicago", "Illinois", "IL", "Cook", "031", "n/a", "-87.6181", "4">>),
      Line(<<"US", "60601", "Chicago", "Illinois", "IL", "Cook", "031", "41.8858", "-87.6181", "">>),
      Line(<<"US", "501", "Holtsville", "New York", "NY", "Suffolk", "103", "40.8154", "-73.0451", "4">>),
      Line(<<"US", "10001-1234", "New York", "New York", "NY", "New York", "061", "40.7484", "-73.9967", "4">>) }

GeoLines == {LineText(d) : d \in GeoRows}

\* what each of them stores; the loop below looks the lines up here
EntryOf == [line \in GeoLines |-> ParseLine(line)]

\* dict[key] = value
Put(db, key, value) == (key :> value) @@ db

\* the map after the loop has taken lines[i..n] in order
RECURSIVE LoadLines(_, _, _, _)
LoadLines(db, lines, i, n) ==
    IF i > n THEN db
    ELSE With(EntryOf[lines[i]], LAMBDA e :
             LoadLines(IF e = None THEN db ELSE Put(db, The(e).zip, The(e).coords),
                       lines, i + 1, n))

-----------------------------------------------------------------------------
(* src/geo.py: load_local_zip_db and the lookups *)

\* (AlreadyLoaded with a fault seeded: the flag is not looked at)
AlreadyLoaded_Never(loaded) == FALSE

\* if _LOCAL_ZIP_DB_LOADED: return _LOCAL_ZIP_DB
AlreadyLoaded(loaded) == loaded

\* (FileMissing with a fault seeded: the missing path raises)
FileMissing_Raises(db) == [db |-> db, raised |-> TRUE]

\* the path does not exist: a warning is logged and the map is returned
FileMissing(db) == [db |-> db, raised |-> FALSE]

\* load_local_zip_db(file_path) on the file f with the module state (db,
\* loaded): the map and the flag it leaves and whether it raised; it returns
\* the map it leaves. A present file is [lines, fails, after]: reading it
\* raises after `after` lines when `fails`, and the exception is swallowed.
\* `read` tells whether the call went to the path (os.path.exists, open).
load_local_zip_db(f, db, loaded) ==
    IF AlreadyLoaded(loaded)
    THEN [db |-> db, loaded |-> loaded, raised |-> FALSE, read |-> FALSE]
    ELSE IF f = None
    THEN [loaded |-> TRUE, read |-> TRUE] @@ FileMissing(db)
    ELSE LET n == IF The(f).fails THEN The(f).after ELSE Len(The(f).lines)
         IN  [db |-> LoadLines(db, The(f).lines, 1, n),
              loaded |-> TRUE, raised |-> FALSE, read |-> TRUE]

\* the ZIPs of a batch as the lookup normalises them, in order
RECURSIVE Normalized(_)
Normalized(zip_codes) ==
    IF zip_codes = <<>> THEN <<>>
    ELSE LET s == Strip(Head(zip_codes))
             rest == Normalized(Tail(zip_codes))
         IN  IF s = "" THEN rest
             ELSE IF IsDigit(First5(s)) THEN <<First5(s)>> \o rest
             ELSE rest

\* dict.get(key): {} is None
Get(d, key) == IF key \in DOMAIN d THEN d[key] ELSE None

\* local_db.get(z), kept when truthy: a pair of coordinates always is
Probe(db, z) == IF z \in DOMAIN db THEN Some(db[z]) ELSE None

\* geocode_zip_batch_zipcodebase(zip_codes): the dict it returns, from each
\* normalised ZIP to its coordinates or None, and the module state it
\* leaves; with no ZIP left after normalising it returns {} without loading
geocode_zip_batch_zipcodebase(zip_codes, f, db, loaded) ==
    With(Normalized(zip_codes), LAMBDA normalized :
        IF normalized = <<>>
        THEN [db |-> db, loaded |-> loaded, raised |-> FALSE, read |-> FALSE,
              result |-> <<>>]
        ELSE With(load_local_zip_db(f, db, loaded), LAMBDA l :
            IF l.raised
            THEN [db |-> l.db, loaded |-> l.loaded, raised |-> TRUE, read |-> l.read,
                  result |-> <<>>]
            ELSE [db |-> l.db, loaded |-> l.loaded, raised |-> FALSE, read |-> l.read,
                  result |-> [z \in Range(normalized) |-> Probe(l.db, z)]]))

\* geocode_zip_async(zip_code) and the [1:] of geocode_zip: the coordinates
\* or None
geocode_zip(zip_code, f, db, loaded) ==
    With(First5(Strip(zip_code)), LAMBDA zip_str :
    With(geocode_zip_batch_zipcodebase(<<zip_str>>, f, db, loaded), LAMBDA b :
        [db |-> b.db, loaded |-> b.loaded, raised |-> b.raised, read |-> b.read,
         result |-> IF b.raised THEN None ELSE Get(b.result, zip_str)]))

\* what a call leaves in the record of the last call
Called(call, arg, r) ==
    Some([call |-> call, arg |-> arg, raised |-> r.raised, read |-> r.read,
          result |-> r.result])

-----------------------------------------------------------------------------
(* SpecGeo: one process using src/geo.py, one call after the other *)

\* the longest file
MaxLines == 2

RECURSIVE LinesUpTo(_)
LinesUpTo(n) ==
    IF n = 0 THEN {<<>>}
    ELSE LinesUpTo(n - 1)
         \cup {Append(ls, l) : ls \in {x \in LinesUpTo(n - 1) : Len(x) = n - 1},
                                l \in GeoLines}

\* the file at the path: absent, readable to the end, or failing on the way
Files ==
    {None}
    \cup {Some([lines |-> ls, fails |-> FALSE, after |-> Len(ls)]) : ls \in LinesUpTo(MaxLines)}
    \cup UNION {{Some([lines |-> ls, fails |-> TRUE, after |-> k]) : k \in 0..Len(ls)} :
                  ls \in LinesUpTo(MaxLines)}

\* ZIPs handed to geocode_zip
ZipInputs == {"10001", "94105", "60601", " 10001 ", "100011234", "1234 5", "abcde", ""}

\* batches handed to geocode_zip_batch
Batches ==
    { <<>>, <<"10001">>, <<"10001", "94105">>, <<"", "abcde">>,
      <<" 10001", "10001">>, <<"60601", "", "94105-1234">> }

InitGeo ==
    /\ q = Idle
    /\ verdict = None
    /\ pc = "idle"
    /\ req = Idle
    /\ llm = None
    /\ executed = <<>>
    /\ checked = <<>>
    /\ resp = None
    /\ centroids = {}
    /\ completions = 0
    /\ file \in Files
    /\ _LOCAL_ZIP_DB = <<>>
    /\ _LOCAL_ZIP_DB_LOADED = FALSE
    /\ geo = None
    /\ MoreIdle

\* the state of the request handlers, which src/geo.py does not touch
apiVars == <<q, verdict, pc, req, llm, executed, checked, resp, centroids,
             completions>>

LoadLocalZipDb ==
    \E r \in {load_local_zip_db(file, _LOCAL_ZIP_DB, _LOCAL_ZIP_DB_LOADED)} :
    /\ _LOCAL_ZIP_DB' = r.db
    /\ _LOCAL_ZIP_DB_LOADED' = r.loaded
    /\ geo' = Called("load_local_zip_db", <<>>,
                   [raised |-> r.raised, read |-> r.read, result |-> r.db])
    /\ UNCHANGED file
    /\ UNCHANGED apiVars
    /\ UNCHANGED moreVars

GeocodeZip(zip_code) ==
    \E r \in {geocode_zip(zip_code, file, _LOCAL_ZIP_DB, _LOCAL_ZIP_DB_LOADED)} :
    /\ _LOCAL_ZIP_DB' = r.db
    /\ _LOCAL_ZIP_DB_LOADED' = r.loaded
    /\ geo' = Called("geocode_zip", <<zip_code>>, r)
    /\ UNCHANGED file
    /\ UNCHANGED apiVars
    /\ UNCHANGED moreVars

GeocodeZipBatch(zip_codes) ==
    \E r \in {geocode_zip_batch_zipcodebase(zip_codes, file, _LOCAL_ZIP_DB,
                                           _LOCAL_ZIP_DB_LOADED)} :
    /\ _LOCAL_ZIP_DB' = r.db
    /\ _LOCAL_ZIP_DB_LOADED' = r.loaded
    /\ geo' = Called("geocode_zip_batch", zip_codes, r)
    /\ UNCHANGED file
    /\ UNCHANGED apiVars
    /\ UNCHANGED moreVars

NextGeo ==
    \/ LoadLocalZipDb
    \/ \E zip_code \in ZipInputs : GeocodeZip(zip_code)
    \/ \E zip_codes \in Batches : GeocodeZipBatch(zip_codes)

SpecGeo == InitGeo /\ [][NextGeo]_vars

-----------------------------------------------------------------------------
(* Properties of src/geo.py *)

\* C20: with the reference file absent, load_local_zip_db does not raise and
\* leaves the map empty, and every single and every batch lookup gives None
\* for every ZIP without raising.
C20_MissingFileGivesNone ==
    (file = None /\ geo # None) =>
        LET c == The(geo) IN
        /\ ~c.raised
        /\ _LOCAL_ZIP_DB = <<>>
        /\ c.call = "load_local_zip_db" => (c.result = <<>> /\ _LOCAL_ZIP_DB_LOADED)
        /\ c.call = "geocode_zip" => c.result = None
        /\ c.call = "geocode_zip_batch" =>
             /\ \A z \in DOMAIN c.result : c.result[z] = None
             /\ \A i \in 1..Len(c.arg) : Get(c.result, c.arg[i]) = None

\* C20 witness: without the file, a batch of two well-formed ZIPs came back
\* with None for both.
C20_Witness ==
    /\ file = None /\ geo # None /\ _LOCAL_ZIP_DB_LOADED
    /\ The(geo).call = "geocode_zip_batch"
    /\ The(geo).arg = <<"10001", "94105">>
    /\ ~The(geo).raised
    /\ DOMAIN The(geo).result = {"10001", "94105"}
    /\ \A z \in {"10001", "94105"} : The(geo).result[z] = None

\* a decimal number, as float gives it
Dec(neg, whole, frac) == [kind |-> "num", neg |-> neg, whole |-> whole, frac |-> frac]

\* the columns of GeoRows that write a number, and the number
NumberOf ==
    ("40.7484" :> Dec(FALSE, 40, "7484")) @@ ("-73.9967" :> Dec(TRUE, 73, "9967"))
    @@ ("37.7898" :> Dec(FALSE, 37, "7898")) @@ ("-122.3942" :> Dec(TRUE, 122, "3942"))
    @@ ("40.750" :> Dec(FALSE, 40, "75")) @@ ("-73.99" :> Dec(TRUE, 73, "99"))
    @@ ("41.8858" :> Dec(FALSE, 41, "8858")) @@ ("-87.6181" :> Dec(TRUE, 87, "6181"))
    @@ ("45.4215" :> Dec(FALSE, 45, "4215")) @@ ("-75.6972" :> Dec(TRUE, 75, "6972"))
    @@ ("40.8154" :> Dec(FALSE, 40, "8154")) @@ ("-73.0451" :> Dec(TRUE, 73, "0451"))

\* the ZIP columns of GeoRows that are digits only
DigitZips == {"10001", "94105", "60601", "501"}

\* the line a text of GeoLines was rendered from
RowOf == [line \in GeoLines |-> CHOOSE d \in GeoRows : LineText(d) = line]

\* a line is not empty, not a comment, has 6 columns or more, a ZIP of
\* digits in its second column and numbers in its third and second from last
Storable(d) ==
    /\ ~d.blank /\ ~d.comment
    /\ Len(d.cols) >= 6
    /\ d.cols[2] \in DigitZips
    /\ FromEnd(d.cols, 3) \in DOMAIN NumberOf
    /\ FromEnd(d.cols, 2) \in DOMAIN NumberOf

\* the map that holds ZIP -> (lat, lon) for exactly the storable lines among
\* lines[i..n], later lines over earlier ones
RECURSIVE StorableEntries(_, _, _, _)
StorableEntries(db, lines, i, n) ==
    IF i > n THEN db
    ELSE With(RowOf[lines[i]], LAMBDA d :
             StorableEntries(
                 IF Storable(d)
                 THEN Put(db, d.cols[2], <<NumberOf[FromEnd(d.cols, 3)], NumberOf[FromEnd(d.cols, 2)]>>)
                 ELSE db,
                 lines, i + 1, n))

\* C21: after a load that read the file to its end, the map holds an entry
\* for exactly the lines that are not empty, not comments, have 6 columns or
\* more, an all-digit ZIP in the second column and numbers in the third and
\* second from last, each ZIP with its (lat, lon); the other lines are
\* skipped; and every key is a ZIP of 5 digits.
C21_ExactlyStorableLinesStored ==
    (file # None /\ ~The(file).fails /\ _LOCAL_ZIP_DB_LOADED) =>
        /\ _LOCAL_ZIP_DB = StorableEntries(<<>>, The(file).lines, 1, Len(The(file).lines))
        /\ \A z \in DOMAIN _LOCAL_ZIP_DB : Len(z) = 5 /\ IsDigit(z)

\* C22: once a call of load_local_zip_db has returned (after a load, a
\* missing file or a read error) the flag stays set, no later call goes to
\* the file or changes the map, and every lookup gives what the map holds
\* for the ZIP.
C22_LoadedOnce ==
    [][_LOCAL_ZIP_DB_LOADED =>
         /\ _LOCAL_ZIP_DB_LOADED'
         /\ _LOCAL_ZIP_DB' = _LOCAL_ZIP_DB
         /\ geo' # None
         /\ ~The(geo').read
         /\ The(geo').call = "load_local_zip_db" => The(geo').result = _LOCAL_ZIP_DB
         /\ The(geo').call = "geocode_zip" =>
              The(geo').result \in {None} \cup {Some(_LOCAL_ZIP_DB[z]) : z \in DOMAIN _LOCAL_ZIP_DB}
         /\ The(geo').call = "geocode_zip_batch" =>
              \A z \in DOMAIN The(geo').result :
                  The(geo').result[z] = Probe(_LOCAL_ZIP_DB, z)]_vars

\* C22 witness: a second call of load_local_zip_db came back with the two
\* entries of the first without going to the file.
C22_Witness ==
    /\ geo # None /\ _LOCAL_ZIP_DB_LOADED
    /\ The(geo).call = "load_local_zip_db"
    /\ ~The(geo).read
    /\ The(geo).result = _LOCAL_ZIP_DB
    /\ DOMAIN _LOCAL_ZIP_DB = {"10001", "94105"}

-----------------------------------------------------------------------------
(* SpecLoad: several callers inside load_local_zip_db of src/geo.py at the
   same time. A caller takes the steps of the function one at a time: the
   test of the flag, the test of the path, one line of the file per step,
   the finally clause, the return. The file is read to its end here. *)

\* the callers
NumCallers == 3

Callers == 1..NumCallers

\* the files that are absent or read to the end
LoadFiles == {f \in Files : f = None \/ ~The(f).fails}

\* a caller at position p, about to take line i, with what it got back
Caller(p, i, early, result) == [pc |-> p, i |-> i, early |-> early, result |-> result]

InitLoad ==
    /\ q = Idle
    /\ verdict = None
    /\ pc = "idle"
    /\ req = Idle
    /\ llm = None
    /\ executed = <<>>
    /\ checked = <<>>
    /\ resp = None
    /\ centroids = {}
    /\ completions = 0
    /\ file \in LoadFiles
    /\ _LOCAL_ZIP_DB = <<>>
    /\ _LOCAL_ZIP_DB_LOADED = FALSE
    /\ geo = None
    /\ thr = [t \in Callers |-> Caller("call", 0, FALSE, <<>>)]
    /\ etl = None
    /\ sess = <<>>

\* (FlagWhileReading with a fault seeded: the flag is set before the loop)
FlagWhileReading_Set(loaded) == TRUE

\* the flag stays as it is while the file is read; the finally clause sets it
FlagWhileReading(loaded) == loaded

\* if _LOCAL_ZIP_DB_LOADED: return _LOCAL_ZIP_DB
TestFlag(t) ==
    /\ thr[t].pc = "call"
    /\ thr' = [thr EXCEPT ![t] =
                 IF AlreadyLoaded(_LOCAL_ZIP_DB_LOADED)
                 THEN Caller("done", 0, TRUE, _LOCAL_ZIP_DB)
                 ELSE Caller("exists", 0, FALSE, <<>>)]
    /\ UNCHANGED <<file, _LOCAL_ZIP_DB, _LOCAL_ZIP_DB_LOADED, geo, etl, sess>>
    /\ UNCHANGED apiVars

\* if not os.path.exists(path): the flag is set and the map returned;
\* otherwise the file is opened
TestPath(t) ==
    /\ thr[t].pc = "exists"
    /\ IF file = None
       THEN /\ _LOCAL_ZIP_DB_LOADED' = TRUE
            /\ thr' = [thr EXCEPT ![t] = Caller("done", 0, FALSE, _LOCAL_ZIP_DB)]
       ELSE /\ _LOCAL_ZIP_DB_LOADED' = FlagWhileReading(_LOCAL_ZIP_DB_LOADED)
            /\ thr' = [thr EXCEPT ![t] = Caller("read", 1, FALSE, <<>>)]
    /\ UNCHANGED <<file, _LOCAL_ZIP_DB, geo, etl, sess>>
    /\ UNCHANGED apiVars

\* one turn of the loop over the lines: the line is parsed and, if it is
\* taken, stored
ReadLine(t) ==
    /\ thr[t].pc = "read"
    /\ thr[t].i <= Len(The(file).lines)
    /\ \E e \in {EntryOf[The(file).lines[thr[t].i]]} :
           _LOCAL_ZIP_DB' = IF e = None THEN _LOCAL_ZIP_DB
                            ELSE Put(_LOCAL_ZIP_DB, The(e).zip, The(e).coords)
    /\ thr' = [thr EXCEPT ![t].i = @ + 1]
    /\ UNCHANGED <<file, _LOCAL_ZIP_DB_LOADED, geo, etl, sess>>
    /\ UNCHANGED apiVars

\* finally: _LOCAL_ZIP_DB_LOADED = True
Finally(t) ==
    /\ thr[t].pc = "read"
    /\ thr[t].i > Len(The(file).lines)
    /\ _LOCAL_ZIP_DB_LOADED' = TRUE
    /\ thr' = [thr EXCEPT ![t].pc = "return"]
    /\ UNCHANGED <<file, _LOCAL_ZIP_DB, geo, etl, sess>>
    /\ UNCHANGED apiVars

\* return _LOCAL_ZIP_DB
Return(t) ==
    /\ thr[t].pc = "return"
    /\ thr' = [thr EXCEPT ![t] = Caller("done", @.i, FALSE, _LOCAL_ZIP_DB)]
    /\ UNCHANGED <<file, _LOCAL_ZIP_DB, _LOCAL_ZIP_DB_LOADED, geo, etl, sess>>
    /\ UNCHANGED apiVars

NextLoad ==
    \/ \E t \in Callers : TestFlag(t)
    \/ \E t \in Callers : TestPath(t)
    \/ \E t \in Callers : ReadLine(t)
    \/ \E t \in Callers : Finally(t)
    \/ \E t \in Callers : Return(t)

SpecLoad == InitLoad /\ [][NextLoad]_vars

\* the map a single call of load_local_zip_db leaves for the file
SingleLoad(f) == load_local_zip_db(f, <<>>, FALSE).db

\* C23: with several callers inside load_local_zip_db at once, the map is
\* that of a single load when all of them have returned, and a caller that
\* returned at the test of the flag got a map with an entry for every ZIP a
\* single load stores, each entry one the file holds for that ZIP.
C23_ConcurrentLoadSameMap ==
    thr # <<>> =>
        /\ (\A t \in Callers : thr[t].pc = "done") => _LOCAL_ZIP_DB = SingleLoad(file)
        /\ \A t \in Callers :
              (thr[t].pc = "done" /\ thr[t].early) =>
                  /\ DOMAIN thr[t].result = DOMAIN SingleLoad(file)
                  /\ \A z \in DOMAIN thr[t].result :
                        \E i \in 1..Len(The(file).lines) :
                            EntryOf[The(file).lines[i]]
                                = Some([zip |-> z, coords |-> thr[t].result[z]])

\* C23 witness: two callers passed the test of the flag before it was set;
\* the first has read the file and returned, the second is still in the
\* loop, and a third came back from the test of the flag with both ZIPs.
C23_Witness ==
    /\ thr # <<>>
    /\ thr[1].pc = "done" /\ ~thr[1].early /\ thr[1].i = 3
    /\ thr[2].pc = "read" /\ thr[2].i = 2
    /\ thr[3].pc = "done" /\ thr[3].early
    /\ DOMAIN thr[3].result = {"10001", "94105"}

-----------------------------------------------------------------------------
(* src/etl.py: the bulk loader *)

\* "".join(ch for ch in s if ch.isdigit())
RECURSIVE OnlyDigits(_)
OnlyDigits(s) ==
    IF s = "" THEN ""
    ELSE (IF Char(s, 1) \in Digits THEN Char(s, 1) ELSE "")
         \o OnlyDigits(SubSeq(s, 2, Len(s)))

RECURSIVE Zeros(_)
Zeros(n) == IF n <= 0 THEN "" ELSE "0" \o Zeros(n - 1)

\* str.zfill(width): zeros on the left up to the width, after a leading sign
Zfill(s, width) ==
    IF Len(s) >= width THEN s
    ELSE IF s # "" /\ Char(s, 1) \in {"+", "-"}
    THEN Char(s, 1) \o Zeros(width - Len(s)) \o SubSeq(s, 2, Len(s))
    ELSE Zeros(width - Len(s)) \o s

\* normalize_zip(zip_code)
normalize_zip(zip_code) ==
    IF zip_code = "" THEN "00000"
    ELSE First5(Zfill(OnlyDigits(zip_code), 5))

\* normalize_ccn(val): the 6 digits, or None
normalize_ccn(val) ==
    IF val = "" THEN None
    ELSE With(OnlyDigits(val), LAMBDA digits :
             IF digits = "" THEN None
             ELSE Some(SubSeq(Zfill(digits, 6), 1, 6)))

\* how many characters of s from i on are whitespace
RECURSIVE SpacesFrom(_, _)
SpacesFrom(s, i) ==
    IF i <= Len(s) /\ Char(s, i) \in Whitespace THEN 1 + SpacesFrom(s, i + 1) ELSE 0

\* DRG_CODE_RE.match(s) with DRG_CODE_RE = \s*(\d{3})\b : group 1, or None.
\* The whitespace is taken greedily and giving some of it back cannot help,
\* as a digit has to follow it.
DRG_CODE_RE(s) ==
    With(SpacesFrom(s, 1), LAMBDA k :
        IF /\ k + 3 <= Len(s)
           /\ IsDigit(SubSeq(s, k + 1, k + 3))
           /\ WordBoundary(s, k + 4)
        THEN Some(SubSeq(s, k + 1, k + 3))
        ELSE None)

\* a row of the CSV: the columns the loader reads. An empty code stands for
\* a file without a code column or a row with nothing in it.
CsvRow(provider_id, zip, code, desc) ==
    [provider_id |-> provider_id, zip |-> zip, code |-> code, desc |-> desc]

\* (CodeToken with a fault seeded: the whole column is taken)
CodeToken_Whole(code_raw) == code_raw

\* code_raw.split(" ")[0]
CodeToken(code_raw) == Split(code_raw, " ")[1]

\* the ms_drg_code of a row, src/etl.py:374-382
ms_drg_code(row) ==
    With(Strip(row.desc), LAMBDA ms_drg_description :
    With(IF row.code # ""
         THEN CodeToken(Strip(row.code))
         ELSE With(DRG_CODE_RE(ms_drg_description), LAMBDA m :
                  IF m # None THEN The(m) ELSE "000"),
         LAMBDA code : Zfill(code, 3)))

\* the rows a CSV may hold
EtlRows ==
    { CsvRow("330101", "10001", "470", "470 - MAJOR HIP AND KNEE JOINT REPLACEMENT"),
      CsvRow("330101", "10001", "", " 039 - EXTRACRANIAL PROCEDURES W/O CC/MCC"),
      CsvRow("330202", "94105", "4700", "MAJOR JOINT"),
      CsvRow("330202", "94105-1234", "", "MAJOR JOINT"),
      CsvRow(" 050454 ", "", "39 W MCC", "4700 - X"),
      CsvRow("330101", "10001", "N/A", "470 - X"),
      CsvRow("33-0303", "99999", "", "47 - SEPTICEMIA") }

\* what each of them gives; the loop below looks the rows up here
DrgCodeOf == [row \in EtlRows |-> ms_drg_code(row)]

ZipOf == [row \in EtlRows |-> normalize_zip(row.zip)]

\* the tuple appended to drg_values for a row (the amounts are left out)
DrgTuple(row) ==
    [provider_id |-> Strip(row.provider_id), ms_drg_code |-> DrgCodeOf[row],
     ms_drg_description |-> Strip(row.desc)]

\* the tuple put in providers_map for a row (name, city and state are left
\* out)
ProviderTuple(row) == [provider_id |-> Strip(row.provider_id), zip |-> ZipOf[row]]

\* one cur.execute of the loader: the table written and the rows
Statement(table, rows) == [table |-> table, rows |-> rows]

\* execute_values(cur, sql, rows, page_size): nothing for no rows, otherwise
\* one statement. (It splits rows longer than page_size; flush_chunk is
\* called as soon as drg_values has page_size rows, so that its rows never
\* are.)
execute_values(log, table, rows) ==
    IF rows = <<>> THEN log ELSE Append(log, Statement(table, rows))

\* a list of the elements of a set, one of each
AsList(S) == CHOOSE seq \in [1..Cardinality(S) -> S] : Range(seq) = S

\* (AlreadyRated with a fault seeded: rating_assigned is not looked at)
AlreadyRated_Never(pid, rating_assigned) == FALSE

\* pid not in rating_assigned, negated
AlreadyRated(pid, rating_assigned) == pid \in rating_assigned

\* the (pid, stars) rows of a flush: the providers of the chunk that have a
\* star rating under their CCN and have not been given one in this run
RatingRows(providers_map, star_ratings, rating_assigned) ==
    {[provider_id |-> pid, rating |-> star_ratings[The(normalize_ccn(pid))]] :
        pid \in {p \in DOMAIN providers_map :
                    /\ normalize_ccn(p) # None
                    /\ The(normalize_ccn(p)) \in DOMAIN star_ratings
                    /\ ~AlreadyRated(p, rating_assigned)}}

\* flush_chunk() on the loader's state e
flush_chunk(e) ==
    IF e.providers_map = <<>> /\ e.drg_values = <<>> THEN e
    ELSE With(RatingRows(e.providers_map, e.star_ratings, e.rating_assigned),
              LAMBDA rating_rows :
         [e EXCEPT
            !.log = execute_values(
                        execute_values(
                            execute_values(@, "providers",
                                           AsList(Range(e.providers_map))),
                            "drg_prices", e.drg_values),
                        "ratings", AsList(rating_rows)),
            !.rating_assigned = @ \cup {r.provider_id : r \in rating_rows},
            !.providers_map = <<>>,
            !.drg_values = <<>>,
            !.total_rows = @ + Len(e.drg_values),
            !.total_chunks = @ + 1])

-----------------------------------------------------------------------------
(* SpecEtl: one run of main() of src/etl.py *)

\* the longest CSV
MaxRows == 3

RECURSIVE CsvsUpTo(_)
CsvsUpTo(n) ==
    IF n = 0 THEN {<<>>}
    ELSE CsvsUpTo(n - 1)
         \cup {Append(rows, row) : rows \in {x \in CsvsUpTo(n - 1) : Len(x) = n - 1},
                                    row \in EtlRows}

\* BATCH_SIZE
PageSizes == {1, 2, 2000}

\* what load_star_ratings_local gives: CCN -> stars
StarRatings == {<<>>, "330101" :> 4, ("330101" :> 4) @@ ("050454" :> 2)}

\* the ZIPs zip_centroids holds before the run
Presents == {{}, {"00000", "99999"}}

\* the reference file of src/geo.py: absent, or with the two ZIPs
EtlFiles ==
    {None,
     Some([lines |-> <<LineText(Line(<<"US", "10001", "New York", "New York", "NY", "New York", "061", "40.7484", "-73.9967", "4">>)),
                       LineText(Line(<<"US", "94105", "San Francisco", "California", "CA", "San Francisco", "075", "37.7898", "-122.3942", "4">>))>>,
           fails |-> FALSE, after |-> 2])}

InitEtl ==
    /\ q = Idle
    /\ verdict = None
    /\ pc = "idle"
    /\ req = Idle
    /\ llm = None
    /\ executed = <<>>
    /\ checked = <<>>
    /\ resp = None
    /\ centroids = {}
    /\ completions = 0
    /\ file \in EtlFiles
    /\ _LOCAL_ZIP_DB = <<>>
    /\ _LOCAL_ZIP_DB_LOADED = FALSE
    /\ geo = None
    /\ thr = <<>>
    /\ sess = <<>>
    /\ \E csv \in CsvsUpTo(MaxRows), page_size \in PageSizes,
          star_ratings \in StarRatings, present \in Presents :
          etl = Some([pc |-> "centroids", csv |-> csv, page_size |-> page_size,
                      star_ratings |-> star_ratings, present |-> present,
                      i |-> 1, providers_map |-> <<>>, drg_values |-> <<>>,
                      rating_assigned |-> {}, total_rows |-> 0, total_chunks |-> 0,
                      log |-> <<>>, committed |-> FALSE, exit |-> None])

\* the ZIPs of the CSV are collected, those zip_centroids does not hold are
\* looked up with geocode_zip_batch, and the run ends with SystemExit if one
\* of them has no coordinates; otherwise the new centroids are inserted
ResolveCentroids ==
    /\ etl # None
    /\ The(etl).pc = "centroids"
    /\ \E e \in {The(etl)} :
       \E missing \in {AsList({ZipOf[e.csv[k]] : k \in 1..Len(e.csv)} \ e.present)} :
       \E r \in {IF missing = <<>>
                 THEN [db |-> _LOCAL_ZIP_DB, loaded |-> _LOCAL_ZIP_DB_LOADED,
                       raised |-> FALSE, read |-> FALSE, result |-> <<>>]
                 ELSE geocode_zip_batch_zipcodebase(missing, file, _LOCAL_ZIP_DB,
                                                    _LOCAL_ZIP_DB_LOADED)} :
       \E missing_in_batch \in {{z \in Range(missing) : Get(r.result, z) = None}} :
          /\ _LOCAL_ZIP_DB' = r.db
          /\ _LOCAL_ZIP_DB_LOADED' = r.loaded
          /\ etl' = Some(IF missing_in_batch # {}
                         THEN [e EXCEPT !.pc = "exit",
                                        !.exit = Some([error |-> "Missing centroids",
                                                       zips |-> missing_in_batch])]
                         ELSE [e EXCEPT !.pc = "rows",
                                        !.log = execute_values(@, "zip_centroids",
                                                    [k \in DOMAIN missing |->
                                                        [zip |-> missing[k],
                                                         coords |-> The(r.result[missing[k]])]])])
    /\ UNCHANGED <<file, geo, thr, sess>>
    /\ UNCHANGED apiVars

\* one turn of "for row in reader": the row goes into the buffers, and the
\* buffers are flushed when drg_values has page_size rows
ProcessRow ==
    /\ etl # None
    /\ The(etl).pc = "rows"
    /\ The(etl).i <= Len(The(etl).csv)
    /\ \E e \in {The(etl)} :
       \E row \in {e.csv[e.i]} :
       \E b \in {[e EXCEPT !.providers_map = Put(@, Strip(row.provider_id), ProviderTuple(row)),
                           !.drg_values = Append(@, DrgTuple(row)),
                           !.i = @ + 1]} :
          etl' = Some(IF Len(b.drg_values) >= b.page_size THEN flush_chunk(b) ELSE b)
    /\ UNCHANGED <<file, _LOCAL_ZIP_DB, _LOCAL_ZIP_DB_LOADED, geo, thr, sess>>
    /\ UNCHANGED apiVars

\* after the last row: the final flush_chunk() and conn.commit()
FinalFlush ==
    /\ etl # None
    /\ The(etl).pc = "rows"
    /\ The(etl).i > Len(The(etl).csv)
    /\ etl' = Some([flush_chunk(The(etl)) EXCEPT !.pc = "done", !.committed = TRUE])
    /\ UNCHANGED <<file, _LOCAL_ZIP_DB, _LOCAL_ZIP_DB_LOADED, geo, thr, sess>>
    /\ UNCHANGED apiVars

NextEtl ==
    \/ ResolveCentroids
    \/ ProcessRow
    \/ FinalFlush

SpecEtl == InitEtl /\ [][NextEtl]_vars

-----------------------------------------------------------------------------
(* Properties of src/etl.py *)

\* C24: the bulk loader does not end with a fatal error because a ZIP of the
\* CSV has no centroid.
C24_LoaderSurvivesMissingCentroid ==
    etl # None => The(etl).pc # "exit"

\* the rows the statements on a table have written, in order
RECURSIVE Written(_, _)
Written(log, table) ==
    IF log = <<>> THEN <<>>
    ELSE (IF Head(log).table = table THEN Head(log).rows ELSE <<>>)
         \o Written(Tail(log), table)

\* C25: every ms_drg_code written to drg_prices is a string of exactly 3
\* digits.
C25_DrgCodeThreeDigits ==
    etl # None =>
        \A k \in 1..Len(The(etl).log) :
            The(etl).log[k].table = "drg_prices" =>
                \A j \in 1..Len(The(etl).log[k].rows) :
                    /\ Len(The(etl).log[k].rows[j].ms_drg_code) = 3
                    /\ IsDigit(The(etl).log[k].rows[j].ms_drg_code)

\* the tuples of the rows csv[1..n], in order
Tuples(csv, n) == [k \in 1..n |-> DrgTuple(csv[k])]

\* the tables of the statements log[from..], in order
Tables(log, from) == [k \in 1..(Len(log) - from + 1) |-> log[from + k - 1].table]

\* in the loader's state e: every price and every rating row was written
\* after a providers statement with its provider; no provider has two
\* rating rows; the rows flushed so far followed by the rows in the buffer
\* are the rows read so far, each once and in order; the buffer is below the
\* batch size between two rows; and at the end nothing is left in the
\* buffers
FlushedOnce(e) ==
    /\ \A j \in 1..Len(e.log) :
          e.log[j].table \in {"drg_prices", "ratings"} =>
              \A r \in Range(e.log[j].rows) :
                  \E k \in 1..(j - 1) :
                      /\ e.log[k].table = "providers"
                      /\ \E p \in Range(e.log[k].rows) : p.provider_id = r.provider_id
    /\ \A a, b \in DOMAIN Written(e.log, "ratings") :
          Written(e.log, "ratings")[a].provider_id = Written(e.log, "ratings")[b].provider_id
              => a = b
    /\ e.pc \in {"rows", "done"} =>
          Written(e.log, "drg_prices") \o e.drg_values = Tuples(e.csv, e.i - 1)
    /\ e.pc = "rows" => Len(e.drg_values) < e.page_size
    /\ e.pc = "done" =>
          /\ e.committed /\ e.i = Len(e.csv) + 1
          /\ e.providers_map = <<>> /\ e.drg_values = <<>>

\* a step of the loader from e to f in which flush_chunk wrote: the
\* providers statement, then the drg_prices statement, then the ratings
\* statement if there is one, and the buffers are left empty
FlushedInOrder(e, f) ==
    f.total_chunks > e.total_chunks =>
        /\ f.total_chunks = e.total_chunks + 1
        /\ Tables(f.log, Len(e.log) + 1)
              \in {<<"providers", "drg_prices">>, <<"providers", "drg_prices", "ratings">>}
        /\ f.providers_map = <<>> /\ f.drg_values = <<>>

\* C29: within every flush_chunk the providers upsert comes before the
\* drg_prices upsert and before the ratings upsert, so that no price or
\* rating row is written before the provider row it references; every CSV
\* row is flushed exactly once (when the buffer reaches the batch size, and
\* in the final flush); the buffers are empty after each flush; and each
\* provider's rating is written at most once in a run.
C29_FlushOrderAndOnce ==
    /\ [](etl # None => FlushedOnce(The(etl)))
    /\ [][(etl # None /\ etl' # None) => FlushedInOrder(The(etl), The(etl'))]_vars

\* C29 witness: a run over three rows of one rated provider with a batch
\* size of 2 has ended: two flushes, six statements after the centroids, one
\* rating row.
C29_Witness ==
    /\ etl # None
    /\ The(etl).pc = "done"
    /\ The(etl).page_size = 2
    /\ The(etl).total_chunks = 2
    /\ The(etl).total_rows = 3
    /\ Tables(The(etl).log, 1) = <<"zip_centroids", "providers", "drg_prices", "ratings",
                                   "providers", "drg_prices">>
    /\ Len(Written(The(etl).log, "ratings")) = 1

-----------------------------------------------------------------------------
(* Properties of src/main.py: the example question and the bound parameters *)

CheapestQuestion == "Who is cheapest for DRG 470 within 25 miles of 10001?"

\* the example question was asked, the translator gave a text that passed
\* the validator and selects the fields of ProviderOut, the text matched one
\* stored row, and the response is out
CheapestAnswered ==
    /\ AskResponded
    /\ req.question = Some(CheapestQuestion)
    /\ checked # <<>> /\ checked[Len(checked)].ok
    /\ executed # <<>>
    /\ executed[Len(executed)].call = "ask"
    /\ executed[Len(executed)].result = "rows"
    /\ executed[Len(executed)].found = 1
    /\ FitsProviderOut(Projected(executed[Len(executed)].sql, Row))

Placeholders(sql) ==
    {SubSeq(sql, i + 1, SkipWhile(sql, i + 1, WordChars) - 1) :
        i \in {j \in 1..Len(sql) :
                 /\ Char(sql, j) = ":"
                 /\ (j = 1 \/ Char(sql, j - 1) \notin (WordChars \cup {":", "\\"}))
                 /\ IsWordAt(sql, j + 1)
                 /\ With(SkipWhile(sql, j + 1, WordChars), LAMBDA e :
                        e > Len(sql) \/ Char(sql, e) # ":")}}

-----------------------------------------------------------------------------
(* src/db.py: get_session, the session of a request *)

\* the exceptions that may come up: from the handler, or from a call on the
\* session. CancelledError and GeneratorExit derive from BaseException only.
Exceptions == {"HTTPException", "DBAPIError", "CancelledError", "GeneratorExit"}

\* (Caught with a fault seeded: a bare except)
Caught_Bare(exc) == TRUE

\* except Exception: what the clause catches
Caught(exc) == exc \in {"HTTPException", "DBAPIError"}

\* get_session at position p: what the handler did with the session
\* ("pending", "returns", or the exception thrown in at the yield), the calls
\* made on the session with what each gave ("ok" or the exception it
\* raised), the exception on its way out, and what left the generator
Session(p, handler, calls, pending, raised) ==
    [pc |-> p, handler |-> handler, calls |-> calls, pending |-> pending,
     raised |-> raised]

\* what the handler may end with
HandlerEnds == {"returns", "HTTPException", "CancelledError", "GeneratorExit"}

\* what a call on the session may give
CallEnds == {"ok", "DBAPIError", "CancelledError"}

\* the sessions of a run
MaxSessions == 2

InitDb ==
    /\ q = Idle
    /\ verdict = None
    /\ pc = "idle"
    /\ req = Idle
    /\ llm = None
    /\ executed = <<>>
    /\ checked = <<>>
    /\ resp = None
    /\ centroids = {}
    /\ completions = 0
    /\ GeoIdle
    /\ thr = <<>>
    /\ etl = None
    /\ sess = <<>>

\* session = AsyncSessionLocal(); yield session
GetSession ==
    /\ Len(sess) < MaxSessions
    /\ sess' = Append(sess, Session("yield", "pending", <<>>, None, None))
    /\ UNCHANGED <<thr, etl>>
    /\ UNCHANGED geoVars
    /\ UNCHANGED apiVars

\* the handler is through with the session: the generator is resumed after
\* the yield, or the handler's exception is thrown in at the yield
HandlerEnded(s, end) ==
    /\ sess[s].pc = "yield"
    /\ sess' = [sess EXCEPT ![s] =
                  IF end = "returns" THEN Session("commit", end, <<>>, None, None)
                  ELSE IF Caught(end) THEN Session("rollback", end, <<>>, Some(end), None)
                  ELSE Session("close", end, <<>>, Some(end), None)]
    /\ UNCHANGED <<thr, etl>>
    /\ UNCHANGED geoVars
    /\ UNCHANGED apiVars

\* await session.commit(): on to the finally clause, or to the except clause
\* when it raises what the clause catches
Commit(s, end) ==
    /\ sess[s].pc = "commit"
    /\ sess' = [sess EXCEPT ![s] =
                  Session(IF end = "ok" THEN "close"
                          ELSE IF Caught(end) THEN "rollback" ELSE "close",
                          @.handler, Append(@.calls, [op |-> "commit", end |-> end]),
                          IF end = "ok" THEN None ELSE Some(end), None)]
    /\ UNCHANGED <<thr, etl>>
    /\ UNCHANGED geoVars
    /\ UNCHANGED apiVars

\* await session.rollback(); raise
Rollback(s, end) ==
    /\ sess[s].pc = "rollback"
    /\ sess' = [sess EXCEPT ![s] =
                  Session("close", @.handler,
                          Append(@.calls, [op |-> "rollback", end |-> end]),
                          IF end = "ok" THEN @.pending ELSE Some(end), None)]
    /\ UNCHANGED <<thr, etl>>
    /\ UNCHANGED geoVars
    /\ UNCHANGED apiVars

\* finally: await session.close(); then the generator ends, or the exception
\* on its way leaves it
Close(s, end) ==
    /\ sess[s].pc = "close"
    /\ sess' = [sess EXCEPT ![s] =
                  Session("done", @.handler,
                          Append(@.calls, [op |-> "close", end |-> end]),
                          None, IF end = "ok" THEN @.pending ELSE Some(end))]
    /\ UNCHANGED <<thr, etl>>
    /\ UNCHANGED geoVars
    /\ UNCHANGED apiVars

NextDb ==
    \/ GetSession
    \/ \E s \in DOMAIN sess, end \in HandlerEnds : HandlerEnded(s, end)
    \/ \E s \in DOMAIN sess, end \in CallEnds : Commit(s, end)
    \/ \E s \in DOMAIN sess, end \in CallEnds : Rollback(s, end)
    \/ \E s \in DOMAIN sess, end \in CallEnds : Close(s, end)

SpecDb == InitDb /\ [][NextDb]_vars

\* the operations called on a session, in order
Ops(x) == [k \in DOMAIN x.calls |-> x.calls[k].op]

\* how often op was called on a session
Times(x, op) == Cardinality({k \in DOMAIN x.calls : x.calls[k].op = op})

\* op was called on the session and did not raise
Did(x, op) == \E k \in DOMAIN x.calls : x.calls[k].op = op /\ x.calls[k].end = "ok"

\* C28 as stated: every session is closed exactly once; it is committed
\* exactly when the handler finishes without raising; otherwise it is rolled
\* back and the handler's exception is re-raised; and commit and rollback
\* are never both called on one session.
C28_CommitOrRollback ==
    \A s \in DOMAIN sess :
        sess[s].pc = "done" =>
            /\ Times(sess[s], "close") = 1
            /\ Did(sess[s], "commit") <=> sess[s].handler = "returns"
            /\ sess[s].handler # "returns" =>
                  /\ Times(sess[s], "rollback") = 1
                  /\ Did(sess[s], "close") => sess[s].raised = Some(sess[s].handler)
            /\ ~(Times(sess[s], "commit") > 0 /\ Times(sess[s], "rollback") > 0)

\* C28 amended: every session is closed exactly once, as the last call on
\* it. commit is called exactly when the handler finishes without raising.
\* rollback is called exactly when the handler, or commit, raises an
\* Exception; it is not called when they end with a BaseException that is
\* not an Exception (a cancellation), and then only close follows. When
\* commit has succeeded rollback is not called. When rollback and close do
\* not raise themselves, the exception of the handler or of commit leaves
\* the generator.
C28_CommitOrRollback_Caught ==
    \A s \in DOMAIN sess :
        sess[s].pc = "done" =>
            With(sess[s], LAMBDA x :
                /\ Times(x, "close") = 1
                /\ x.calls[Len(x.calls)].op = "close"
                /\ Times(x, "commit") = (IF x.handler = "returns" THEN 1 ELSE 0)
                /\ Times(x, "rollback") =
                      (IF \/ (x.handler # "returns" /\ Caught(x.handler))
                          \/ (x.handler = "returns" /\ x.calls[1].end # "ok"
                                /\ Caught(x.calls[1].end))
                       THEN 1 ELSE 0)
                /\ Did(x, "commit") => Ops(x) = <<"commit", "close">>
                /\ (x.handler \in {"CancelledError", "GeneratorExit"}) => Ops(x) = <<"close">>
                /\ (\A k \in DOMAIN x.calls :
                        x.calls[k].op # "commit" => x.calls[k].end = "ok") =>
                      x.raised = (IF x.handler # "returns" THEN Some(x.handler)
                                  ELSE IF x.calls[1].end = "ok" THEN None
                                  ELSE Some(x.calls[1].end)))

\* C28 witness: one session was committed and closed; on another the handler
\* raised an HTTPException, it was rolled back and closed, and the
\* HTTPException left the generator.
C28_Witness ==
    /\ Len(sess) = 2
    /\ sess[1].pc = "done" /\ sess[1].handler = "returns"
    /\ sess[1].calls = <<[op |-> "commit", end |-> "ok"], [op |-> "close", end |-> "ok"]>>
    /\ sess[1].raised = None
    /\ sess[2].pc = "done" /\ sess[2].handler = "HTTPException"
    /\ sess[2].calls = <<[op |-> "rollback", end |-> "ok"], [op |-> "close", end |-> "ok"]>>
    /\ sess[2].raised = Some("HTTPException")

=============================================================================
